---- MODULE Spec2Model ----
(***************************************************************************)
(* A model of the bft_simulation discrete-event simulator: the PBFT and    *)
(* Zyzzyva replica state machines (node/pbft/state.rs,                     *)
(* node/zyzzyva/state.rs) and the event scheduler (simulation/mod.rs).     *)
(***************************************************************************)
EXTENDS Integers, Sequences, FiniteSets, TLC

(***************************************************************************)
(* Bounds of the model.                                                    *)
(***************************************************************************)
\* Number of replicas of a cluster (PBFT: num_of_nodes; Zyzzyva: one more
\* node is configured, the client).
NumReplicas == 4
\* The primary stops accepting client requests at this sequence number.
MaxSeq == 3
\* Batches of client requests sent into a run from outside
MaxBatches == 1
\* Requests of a batch
BatchNumber == 1

(***************************************************************************)
(* Program constants.                                                      *)
(***************************************************************************)
\* pbft/state.rs: `let initial_view = 1;`
initial_view == 1
\* simulation/mod.rs: `request_counter: 1`, the id of the first request
FIRST_REQUEST_ID == 1
\* zyzzyva/state.rs: `pub const CLIENT_ID: u32 = 2;`
CLIENT_ID == 2
\* simulation/config.rs: `sender_id: 31415` of generated PBFT requests
PBFT_CLIENT_SENDER == 31415
\* simulation/config.rs: `sender_id: 0` of generated Zyzzyva requests
ZYZZYVA_SIM_SENDER == 0
\* `time.add_milli(5)`: a node's output leaves 5 ms after the reception
NODE_DELAY == 5
\* log_result writes -1 for no node
NO_NODE == -1

VARIABLES
    node_type,    \* "PBFT" or "Zyzzyva": the replica implementation under test
    replica,      \* the ReplicaState / State struct of the node
    msg,          \* the message handled last, as a set (empty: none yet)
    repeated,     \* the message handled last was also the one handled before it
    output,       \* Output returned by the last handle_message (<<>>: None)
    results,      \* the log_result records the last handle_message wrote
    last_entry,   \* the log entry the last handler worked on, as a set
    panicked,     \* a panic! was reached: the process is gone
    sims,         \* the Simulation of each run (empty when one node is studied)
    call,         \* the function called last, its arguments and what it returned
    pending,      \* the messages sent to the node and not yet delivered
    delivered,    \* the messages delivered to the node, in their order
    cluster,      \* the nodes of a Zyzzyva cluster and the messages between them
    threads       \* the lock of the event queue and where each thread stands

rvars == <<node_type, replica, msg, repeated, output, results, last_entry, panicked>>

\* What a run of nodes or of the scheduler never touches
fvars == <<call, pending, delivered, cluster, threads>>

vars == <<node_type, replica, msg, repeated, output, results, last_entry, panicked, sims,
          call, pending, delivered, cluster, threads>>

\* No function has been called on its own, no message is kept for delivery
NoCall ==
    /\ call = [fn |-> "none"]
    /\ pending = {}
    /\ delivered = <<>>
    /\ cluster = <<>>
    /\ threads = <<>>

(***************************************************************************)
(* Helpers for Vec and HashMap.                                            *)
(***************************************************************************)
RECURSIVE RangeExcept(_, _, _)
\* (lo..=hi).filter(|i| !skip.contains(i)).collect() : ascending Vec
RangeExcept(lo, hi, skip) ==
    IF lo > hi THEN <<>>
    ELSE (IF lo \in skip THEN <<>> ELSE <<lo>>) \o RangeExcept(lo + 1, hi, skip)

\* HashMap::insert(key, value): overwrites an existing value
MapInsert(map, key, value) ==
    [k \in DOMAIN map \cup {key} |-> IF k = key THEN value ELSE map[k]]

\* HashMap::remove(key)
MapRemove(map, key) == [k \in DOMAIN map \ {key} |-> map[k]]

EmptyMap == [k \in {} |-> 0]

\* One line written by log_result(time, Some(id), "<op>;<phase>")
ResultRecord(time, id, op, phase) ==
    [time |-> time, node |-> id, op |-> op, phase |-> phase]

\* What a handler invocation yields: the node's new state, the returned
\* Output (None is <<>>), the result records written, the entry it last held
\* and whether it panicked.
Ret(self, out, res, entry, panic) ==
    [self |-> self, output |-> out, results |-> res, entry |-> entry, panic |-> panic]

(***************************************************************************)
(* PBFT messages (pbft/messages.rs).                                       *)
(***************************************************************************)
\* struct ClientRequest { operation, sender_id }
ClientRequest(operation, sender_id) == [operation |-> operation, sender_id |-> sender_id]

\* PBFTMessage::ClientRequest(c_req)
PBFTClientRequest(c_req) == [kind |-> "ClientRequest", c_req |-> c_req]

PrePrepareMessage(c_req, view, seq_number, sender_id) ==
    [kind |-> "PrePrepare", c_req |-> c_req, view |-> view,
     seq_number |-> seq_number, sender_id |-> sender_id]

PrepareMessage(c_req, view, seq_number, sender_id) ==
    [kind |-> "Prepare", c_req |-> c_req, view |-> view,
     seq_number |-> seq_number, sender_id |-> sender_id]

CommitMessage(c_req, view, seq_number, sender_id) ==
    [kind |-> "Commit", c_req |-> c_req, view |-> view,
     seq_number |-> seq_number, sender_id |-> sender_id]

(***************************************************************************)
(* PBFT replica (node/pbft/state.rs).                                      *)
(***************************************************************************)
pbft_create_peer_broadcast_output(msg_out, peers) ==
    [i \in 1..Len(peers) |-> <<peers[i], msg_out>>]

PBFTLogEntry_new(view, seq_number, client_request) ==
    [view |-> view, seq_number |-> seq_number, client_request |-> client_request,
     prepare_quorum |-> {}, commit_quorum |-> {},
     committed_local |-> FALSE, prepared |-> FALSE]

has_commit_quorum_of(entry, quorum_size) ==
    Cardinality(entry.commit_quorum) >= quorum_size

has_pre_prepare_message(entry) ==
    \E m \in entry.prepare_quorum : m.kind = "PrePrepare"

\* A prepare quorum that counts messages only
has_prepare_quorum_of_any_messages(entry, quorum_size) ==
    Cardinality(entry.prepare_quorum) >= quorum_size

\* A prepare quorum that is content with one message less
has_prepare_quorum_of_one_less(entry, quorum_size) ==
    has_pre_prepare_message(entry) /\ Cardinality(entry.prepare_quorum) >= quorum_size - 1

has_prepare_quorum_of(entry, quorum_size) ==
    has_pre_prepare_message(entry) /\ Cardinality(entry.prepare_quorum) >= quorum_size

\* `let f: usize = nn / 3 + nn % 3 - 1;` and `quorum_size: 2 * f + 1`
quorum_size_of(nn) == 2 * ((nn \div 3) + (nn % 3) - 1) + 1

ReplicaState_new(id, num_of_nodes) ==
    [id |-> id,
     num_of_nodes |-> num_of_nodes,
     role |-> IF id = initial_view % num_of_nodes THEN "Primary" ELSE "Backup",
     current_view |-> initial_view,
     next_seq_num |-> 0,
     log |-> EmptyMap,
     cl_reqs |-> {},
     peers |-> RangeExcept(1, num_of_nodes, {id}),
     quorum_size |-> quorum_size_of(num_of_nodes)]

pbft_curr_primary(self) == self.current_view % self.num_of_nodes

\* A primary check that every replica passes
pbft_is_primary_any_role(self) == TRUE

pbft_is_primary(self) == self.role = "Primary"

\* An ignore filter that lets Commit messages through
pbft_can_ignore_message_prepare_only(self, message) ==
    CASE message.kind = "Prepare" -> message.c_req.operation \in self.cl_reqs
      [] OTHER -> FALSE

pbft_can_ignore_message(self, message) ==
    CASE message.kind = "Prepare" -> message.c_req.operation \in self.cl_reqs
      [] message.kind = "Commit" -> message.c_req.operation \in self.cl_reqs
      [] OTHER -> FALSE

\* A `prepared` check that forgets `!entry.prepared`
prepared_check_again(self, entry) == has_prepare_quorum_of(entry, self.quorum_size)

\* The `prepared` check of update_prediactes
prepared_check(self, entry) ==
    ~entry.prepared /\ has_prepare_quorum_of(entry, self.quorum_size)

\* A commit check that does not ask for `prepared`
committed_local_check_unprepared(self, entry) ==
    ~entry.committed_local /\ has_commit_quorum_of(entry, self.quorum_size)

\* A commit check that waits for one Commit more than the quorum
committed_local_check_late(self, entry) ==
    entry.prepared /\ ~entry.committed_local
        /\ has_commit_quorum_of(entry, self.quorum_size + 1)

\* The `committed_local` check of update_prediactes
committed_local_check(self, entry) ==
    entry.prepared /\ ~entry.committed_local
        /\ has_commit_quorum_of(entry, self.quorum_size)

update_prediactes(self, req_id, output0, time) ==
    LET entry0 == self.log[req_id]
        flip1 == prepared_check(self, entry0)
        commit == CommitMessage(entry0.client_request, entry0.view,
                                entry0.seq_number, self.id)
        entry1 == IF flip1
                  THEN [entry0 EXCEPT !.prepared = TRUE,
                                      !.commit_quorum = @ \cup {commit}]
                  ELSE entry0
        output1 == IF flip1
                   THEN output0 \o pbft_create_peer_broadcast_output(commit, self.peers)
                   ELSE output0
        res1 == IF flip1
                THEN <<ResultRecord(time, self.id, entry0.client_request.operation, "prepared")>>
                ELSE <<>>
        flip2 == committed_local_check(self, entry1)
        entry2 == IF flip2 THEN [entry1 EXCEPT !.committed_local = TRUE] ELSE entry1
        res2 == IF flip2
                THEN <<ResultRecord(time, self.id, entry0.client_request.operation,
                                    "committed_local")>>
                ELSE <<>>
        self2 == IF flip2
                 THEN [self EXCEPT !.log = MapRemove(@, req_id),
                                   !.cl_reqs = @ \cup {req_id}]
                 ELSE [self EXCEPT !.log = MapInsert(@, req_id, entry2)]
    IN Ret(self2, output1, res1 \o res2, {entry2}, FALSE)

\* A counter that hands out the current view instead of the next number
next_seq_num_of_view(self) == self.current_view

\* `self.next_seq_num += 1; self.next_seq_num`: the value returned and stored
next_seq_num(self) == self.next_seq_num + 1

pbft_handle_client_request(self, msg_in, time) ==
    IF pbft_is_primary(self)
    THEN LET seq_number == next_seq_num(self)
             c_req == msg_in.c_req
             preprepare == PrePrepareMessage(c_req, self.current_view, seq_number, self.id)
             entry == [PBFTLogEntry_new(self.current_view, seq_number, c_req)
                          EXCEPT !.prepare_quorum = {preprepare}]
         IN Ret([self EXCEPT !.next_seq_num = seq_number,
                             !.log = MapInsert(@, c_req.operation, entry)],
                pbft_create_peer_broadcast_output(preprepare, self.peers),
                <<ResultRecord(time, self.id, c_req.operation, "request")>>,
                {entry}, FALSE)
    ELSE Ret(self, <<>>, <<>>, {}, FALSE)

\* A PrePrepare handler that accepts the message from any sender
handle_pre_prepare_message_from_anyone(self, msg_in, time) ==
    LET req_id == msg_in.c_req.operation
        entry0 == IF req_id \in DOMAIN self.log
                  THEN self.log[req_id]
                  ELSE PBFTLogEntry_new(msg_in.view, msg_in.seq_number, msg_in.c_req)
        prepare == PrepareMessage(entry0.client_request, entry0.view,
                                  entry0.seq_number, self.id)
        entry1 == [entry0 EXCEPT !.prepare_quorum = @ \cup {msg_in, prepare}]
        self1 == [self EXCEPT !.log = MapInsert(@, req_id, entry1)]
        r == update_prediactes(self1, req_id,
                pbft_create_peer_broadcast_output(prepare, self.peers), time)
    IN [r EXCEPT !.results =
           <<ResultRecord(time, self.id, req_id, "pre-prepared")>> \o @]

handle_pre_prepare_message(self, msg_in, time) ==
    IF pbft_curr_primary(self) = msg_in.sender_id
    THEN LET req_id == msg_in.c_req.operation
             entry0 == IF req_id \in DOMAIN self.log
                       THEN self.log[req_id]
                       ELSE PBFTLogEntry_new(msg_in.view, msg_in.seq_number, msg_in.c_req)
             prepare == PrepareMessage(entry0.client_request, entry0.view,
                                       entry0.seq_number, self.id)
             entry1 == [entry0 EXCEPT !.prepare_quorum = @ \cup {msg_in, prepare}]
             self1 == [self EXCEPT !.log = MapInsert(@, req_id, entry1)]
             r == update_prediactes(self1, req_id,
                     pbft_create_peer_broadcast_output(prepare, self.peers), time)
         IN [r EXCEPT !.results =
                <<ResultRecord(time, self.id, req_id, "pre-prepared")>> \o @]
    ELSE Ret(self, <<>>, <<>>, {}, FALSE)

handle_prepare_message(self, msg_in, time) ==
    LET req_id == msg_in.c_req.operation IN
    IF req_id \in DOMAIN self.log
    THEN LET entry == [self.log[req_id] EXCEPT !.prepare_quorum = @ \cup {msg_in}]
         IN update_prediactes([self EXCEPT !.log = MapInsert(@, req_id, entry)],
                              req_id, <<>>, time)
    ELSE LET entry == [PBFTLogEntry_new(msg_in.view, msg_in.seq_number, msg_in.c_req)
                          EXCEPT !.prepare_quorum = {msg_in}]
         IN Ret([self EXCEPT !.log = MapInsert(@, req_id, entry)],
                <<>>, <<>>, {entry}, FALSE)

\* A commit handler that drops a Commit for an operation without an entry
handle_commit_message_needs_entry(self, msg_in, time) ==
    LET req_id == msg_in.c_req.operation IN
    IF req_id \in DOMAIN self.log
    THEN LET entry == [self.log[req_id] EXCEPT !.commit_quorum = @ \cup {msg_in}]
         IN update_prediactes([self EXCEPT !.log = MapInsert(@, req_id, entry)],
                              req_id, <<>>, time)
    ELSE Ret(self, <<>>, <<>>, {}, FALSE)

handle_commit_message(self, msg_in, time) ==
    LET req_id == msg_in.c_req.operation IN
    IF req_id \in DOMAIN self.log
    THEN LET entry == [self.log[req_id] EXCEPT !.commit_quorum = @ \cup {msg_in}]
         IN update_prediactes([self EXCEPT !.log = MapInsert(@, req_id, entry)],
                              req_id, <<>>, time)
    ELSE LET entry == [PBFTLogEntry_new(msg_in.view, msg_in.seq_number, msg_in.c_req)
                          EXCEPT !.commit_quorum = {msg_in}]
         IN Ret([self EXCEPT !.log = MapInsert(@, req_id, entry)],
                <<>>, <<>>, {entry}, FALSE)

pbft_handle_message(self, message, time) ==
    IF pbft_can_ignore_message(self, message)
    THEN Ret(self, <<>>, <<>>, {}, FALSE)
    ELSE CASE message.kind = "ClientRequest" -> pbft_handle_client_request(self, message, time)
           [] message.kind = "PrePrepare" -> handle_pre_prepare_message(self, message, time)
           [] message.kind = "Prepare" -> handle_prepare_message(self, message, time)
           [] message.kind = "Commit" -> handle_commit_message(self, message, time)
           [] OTHER -> Ret(self, <<>>, <<>>, {}, TRUE)

(***************************************************************************)
(* Zyzzyva messages (node/zyzzyva/messages.rs).                            *)
(***************************************************************************)
\* ZyzzyvaMessage::ClientRequest(c_req)
ZyzzyvaClientRequest(c_req) == [kind |-> "ClientRequest", c_req |-> c_req]

ClientTimeout(req_id) == [kind |-> "ClientTimeout", req_id |-> req_id]

OrderRequest(c_req, view, seq_number, sender_id) ==
    [kind |-> "OrderRequest", c_req |-> c_req, view |-> view,
     seq_number |-> seq_number, sender_id |-> sender_id]

SpeculativeResponse(c_req, view, seq_number, sender_id) ==
    [kind |-> "SpeculativeResponse", c_req |-> c_req, view |-> view,
     seq_number |-> seq_number, sender_id |-> sender_id]

\* certificate is a Vec<SpeculativeResponse>
Commit(req_id, certificate, sender_id) ==
    [kind |-> "Commit", req_id |-> req_id, certificate |-> certificate,
     sender_id |-> sender_id]

LocalCommit(c_req, view, seq_number, sender_id) ==
    [kind |-> "LocalCommit", c_req |-> c_req, view |-> view,
     seq_number |-> seq_number, sender_id |-> sender_id]

(***************************************************************************)
(* Zyzzyva node (node/zyzzyva/state.rs).                                   *)
(***************************************************************************)
zyzzyva_create_peer_broadcast_output(msg_out, peers) ==
    [i \in 1..Len(peers) |-> <<peers[i], msg_out>>]

ZyzzyvaLogEntry_new(c_req, view, seq_number) ==
    [c_req |-> c_req, view |-> view, seq_number |-> seq_number,
     commit_certificate |-> {}, local_commits |-> {},
     speculative_execution |-> FALSE, committed_local |-> FALSE,
     completed |-> FALSE, timed_out |-> FALSE]

\* A HashSet collected into a Vec: the iteration order of a HashSet is any
\* order of its elements.
VecsOf(set) ==
    {v \in [1..Cardinality(set) -> set] : \A i, j \in DOMAIN v : i # j => v[i] # v[j]}

\* HashSet::from_iter(vec.into_iter())
SetOfVec(vec) == {vec[i] : i \in DOMAIN vec}

State_new(id, configured_nodes) ==
    LET num_of_nodes == configured_nodes - 1 IN
    [id |-> id,
     log |-> EmptyMap,
     num_of_nodes |-> num_of_nodes,
     current_view |-> 1,
     next_seq_num |-> 0,
     cl_reqs |-> {},
     lc_seq_num |-> 0,
     role |-> CASE id = 1 -> "Primary"
                [] id = CLIENT_ID -> "Client"
                [] OTHER -> "Backup",
     client_id |-> CLIENT_ID,
     peers |-> RangeExcept(1, num_of_nodes + 1, {id, CLIENT_ID}),
     quorum_size |-> quorum_size_of(num_of_nodes)]

\* An ignore filter that lets LocalCommit messages through
zyzzyva_can_ignore_message_no_local_commit(self, message) ==
    CASE message.kind = "SpeculativeResponse" -> message.c_req.operation \in self.cl_reqs
      [] message.kind = "OrderRequest" -> message.c_req.operation \in self.cl_reqs
      [] OTHER -> FALSE

zyzzyva_can_ignore_message(self, message) ==
    CASE message.kind = "LocalCommit" -> message.c_req.operation \in self.cl_reqs
      [] message.kind = "SpeculativeResponse" -> message.c_req.operation \in self.cl_reqs
      [] message.kind = "OrderRequest" -> message.c_req.operation \in self.cl_reqs
      [] OTHER -> FALSE

zyzzyva_curr_primary(self) == self.current_view % self.num_of_nodes

\* A collection that drops the entry and does not remember the operation
gc_entry_forgets(self, req_id) == [self EXCEPT !.log = MapRemove(@, req_id)]

gc_entry(self, req_id) ==
    [self EXCEPT !.log = MapRemove(@, req_id), !.cl_reqs = @ \cup {req_id}]

\* A completion test that waits for the LocalCommit of every replica
local_commit_check_of_all(self, entry) ==
    Cardinality(entry.local_commits) >= self.num_of_nodes /\ ~entry.completed

\* A completion test that no number of LocalCommits satisfies
local_commit_check_beyond_all(self, entry) ==
    Cardinality(entry.local_commits) > self.num_of_nodes /\ ~entry.completed

\* The completion test of handle_local_commit
local_commit_check(self, entry) ==
    Cardinality(entry.local_commits) >= self.quorum_size /\ ~entry.completed

handle_local_commit(self, msg_in, time) ==
    LET op == msg_in.c_req.operation IN
    IF op \in DOMAIN self.log
    THEN LET entry == [self.log[op] EXCEPT !.local_commits = @ \cup {msg_in.sender_id}]
             self1 == [self EXCEPT !.log = MapInsert(@, op, entry)]
         IN IF local_commit_check(self, entry)
            THEN Ret(gc_entry(self1, entry.c_req.operation), <<>>,
                     <<ResultRecord(time, self.id, op, "completed")>>, {entry}, FALSE)
            ELSE Ret(self1, <<>>, <<>>, {entry}, FALSE)
    ELSE Ret(self, <<>>, <<>>, {}, TRUE)

\* A check that does not ask for a quorum
timeout_commit_check_below_quorum(self, cert_len) == cert_len < Len(self.peers)

\* Zyzzyva 4.b: the certificate is a quorum but not complete
timeout_commit_check(self, cert_len) ==
    cert_len >= self.quorum_size /\ cert_len < Len(self.peers)

\* handle_client_timeout returns one of these: the Commit carries the
\* certificate in the order the HashSet yields it.
handle_client_timeout_outcomes(self, msg_in, time) ==
    IF self.role = "Client"
    THEN IF msg_in.req_id \in DOMAIN self.log
         THEN LET entry == [self.log[msg_in.req_id] EXCEPT !.timed_out = TRUE]
                  self1 == [self EXCEPT !.log = MapInsert(@, msg_in.req_id, entry)]
                  cert_len == Cardinality(entry.commit_certificate)
              IN IF timeout_commit_check(self, cert_len)
                 THEN {Ret(self1,
                           zyzzyva_create_peer_broadcast_output(
                               Commit(msg_in.req_id, cert, self.id), self.peers),
                           <<>>, {entry}, FALSE)
                        : cert \in VecsOf(entry.commit_certificate)}
                 ELSE IF cert_len < self.quorum_size
                      THEN {Ret(self1, <<>>,
                                <<ResultRecord(time, self.id, msg_in.req_id, "timed-out")>>,
                                {entry}, FALSE)}
                      ELSE {Ret(self1, <<>>, <<>>, {entry}, FALSE)}
         ELSE {Ret(self, <<>>, <<>>, {}, FALSE)}
    ELSE {Ret(self, <<>>, <<>>, {}, TRUE)}

zyzzyva_handle_client_request(self, msg_in, time) ==
    CASE self.role = "Client" ->
            LET request == ClientRequest(msg_in.c_req.operation, self.id)
                entry == ZyzzyvaLogEntry_new(request, 0, 0)
            IN Ret([self EXCEPT !.log = MapInsert(@, msg_in.c_req.operation, entry)],
                   << <<zyzzyva_curr_primary(self), ZyzzyvaClientRequest(request)>>,
                      <<self.id, ClientTimeout(msg_in.c_req.operation)>> >>,
                   <<>>, {entry}, FALSE)
      [] self.role = "Primary" ->
            LET seq_number == self.next_seq_num + 1
                c_req == msg_in.c_req
                entry == [ZyzzyvaLogEntry_new(c_req, self.current_view, seq_number)
                             EXCEPT !.speculative_execution = TRUE]
            IN Ret([self EXCEPT !.next_seq_num = seq_number,
                                !.log = MapInsert(@, c_req.operation, entry)],
                   << <<CLIENT_ID, SpeculativeResponse(c_req, self.current_view,
                                                       seq_number, self.id)>> >>
                      \o zyzzyva_create_peer_broadcast_output(
                             OrderRequest(c_req, self.current_view, seq_number, self.id),
                             self.peers),
                   <<ResultRecord(time, self.id, c_req.operation, "speculative_commit")>>,
                   {entry}, FALSE)
      [] OTHER -> Ret(self, <<>>, <<>>, {}, TRUE)

handle_order_request(self, msg_in, time) ==
    IF self.role = "Backup"
    THEN IF msg_in.c_req.operation \in DOMAIN self.log
         THEN Ret(self, <<>>, <<>>, {}, TRUE)
         ELSE LET entry == [ZyzzyvaLogEntry_new(msg_in.c_req, msg_in.view, msg_in.seq_number)
                               EXCEPT !.speculative_execution = TRUE]
              IN Ret([self EXCEPT !.log = MapInsert(@, msg_in.c_req.operation, entry)],
                     << <<CLIENT_ID, SpeculativeResponse(msg_in.c_req, msg_in.view,
                                                         msg_in.seq_number, self.id)>> >>,
                     <<ResultRecord(time, self.id, msg_in.c_req.operation,
                                    "speculative_commit")>>,
                     {entry}, FALSE)
    ELSE Ret(self, <<>>, <<>>, {}, TRUE)

\* A certificate logged at every size from the quorum on
certificate_check_from_quorum(self, cert) == Cardinality(cert) >= self.quorum_size

\* `cert.len() == self.quorum_size`: the certificate is logged
certificate_check(self, cert) == Cardinality(cert) = self.quorum_size

\* A fast path taken on a quorum of responses
fast_path_check_on_quorum(self, cert) == Cardinality(cert) >= self.quorum_size

\* Zyzzyva 4.a: the certificate holds a response of every replica
fast_path_check(self, cert) == Cardinality(cert) = self.num_of_nodes

\* A client that goes on accepting responses after its timeout
timed_out_check_skipped(entry) == FALSE

\* `if entry.timed_out { return None; }`
timed_out_check(entry) == entry.timed_out

handle_speculative_response(self, msg_in, time) ==
    LET op == msg_in.c_req.operation IN
    IF self.role = "Client"
    THEN IF op \in DOMAIN self.log
         THEN IF timed_out_check(self.log[op])
              THEN Ret(self, <<>>, <<>>, {self.log[op]}, FALSE)
              ELSE LET entry == [self.log[op] EXCEPT !.commit_certificate = @ \cup {msg_in}]
                       cert == entry.commit_certificate
                       self1 == [self EXCEPT !.log = MapInsert(@, op, entry)]
                       res1 == IF certificate_check(self, cert)
                               THEN <<ResultRecord(time, self.id, op, "commit_certificate")>>
                               ELSE <<>>
                   IN IF fast_path_check(self, cert)
                      THEN Ret(gc_entry(self1, entry.c_req.operation), <<>>,
                               res1 \o <<ResultRecord(time, self.id, op, "completed")>>,
                               {entry}, FALSE)
                      ELSE Ret(self1, <<>>, res1, {entry}, FALSE)
         ELSE Ret(self, <<>>, <<>>, {}, TRUE)
    ELSE Ret(self, <<>>, <<>>, {}, TRUE)

handle_commit(self, msg_in, time) ==
    IF self.role = "Client"
    THEN Ret(self, <<>>, <<>>, {}, TRUE)
    ELSE IF msg_in.req_id \in DOMAIN self.log
         THEN LET entry == [self.log[msg_in.req_id] EXCEPT
                               !.commit_certificate = SetOfVec(msg_in.certificate),
                               !.committed_local = TRUE]
              IN Ret(gc_entry(self, msg_in.req_id),
                     << <<CLIENT_ID, LocalCommit(entry.c_req, entry.view,
                                                 entry.seq_number, self.id)>> >>,
                     <<>>, {entry}, FALSE)
         ELSE IF Len(msg_in.certificate) = 0
              THEN Ret(self, <<>>, <<>>, {}, TRUE)
              ELSE LET spec_res == msg_in.certificate[1]
                       entry == [ZyzzyvaLogEntry_new(spec_res.c_req, spec_res.view,
                                                     spec_res.seq_number) EXCEPT
                                    !.commit_certificate = SetOfVec(msg_in.certificate),
                                    !.committed_local = TRUE]
                   IN Ret(gc_entry(self, msg_in.req_id),
                          << <<CLIENT_ID, LocalCommit(entry.c_req, entry.view,
                                                      entry.seq_number, self.id)>> >>,
                          <<ResultRecord(time, self.id, entry.c_req.operation,
                                         "committed_local")>>,
                          {entry}, FALSE)

\* handle_message: the set of outcomes (one, except where a HashSet's order
\* shows in the output)
zyzzyva_handle_message_outcomes(self, message, time) ==
    IF zyzzyva_can_ignore_message(self, message)
    THEN {Ret(self, <<>>, <<>>, {}, FALSE)}
    ELSE CASE message.kind = "ClientRequest" ->
                {zyzzyva_handle_client_request(self, message, time)}
           [] message.kind = "ClientTimeout" ->
                handle_client_timeout_outcomes(self, message, time)
           [] message.kind = "OrderRequest" -> {handle_order_request(self, message, time)}
           [] message.kind = "SpeculativeResponse" ->
                {handle_speculative_response(self, message, time)}
           [] message.kind = "Commit" -> {handle_commit(self, message, time)}
           [] message.kind = "LocalCommit" -> {handle_local_commit(self, message, time)}

(***************************************************************************)
(* A node under arbitrary message delivery.  One node of a cluster of      *)
(* NumReplicas replicas is built by its constructor and then handed, one   *)
(* at a time and in any order, messages about the first request.           *)
(***************************************************************************)
\* The view and sequence number the primary gives the first request
Views == {initial_view}
Seqs == {1}

\* Node ids standing for the roles: the primary, the Zyzzyva client (a PBFT
\* backup), and a backup.
RoleIds == {1, CLIENT_ID, 3}

PBFTNodes == NumReplicas
ZyzzyvaNodes == NumReplicas + 1

PBFTRequest == ClientRequest(FIRST_REQUEST_ID, PBFT_CLIENT_SENDER)

PBFTVotes(kind) ==
    {[kind |-> kind, c_req |-> PBFTRequest, view |-> v, seq_number |-> n, sender_id |-> s]
        : v \in Views, n \in Seqs, s \in 1..PBFTNodes}

PBFTMessages(kind) ==
    CASE kind = "ClientRequest" -> {PBFTClientRequest(PBFTRequest)}
      [] kind = "ClientResponse" ->
            {[kind |-> "ClientResponse", result |-> 0, sender_id |-> s] : s \in {1}}
      [] OTHER -> PBFTVotes(kind)

\* The request as the simulation hands it to the client, and as the client
\* forwards it to the primary
ZyzzyvaSimRequest == ClientRequest(FIRST_REQUEST_ID, ZYZZYVA_SIM_SENDER)
ZyzzyvaRequest == ClientRequest(FIRST_REQUEST_ID, CLIENT_ID)

ZyzzyvaReplicaIds == (1..ZyzzyvaNodes) \ {CLIENT_ID}

ZyzzyvaVotes(kind) ==
    {[kind |-> kind, c_req |-> ZyzzyvaRequest, view |-> v, seq_number |-> n, sender_id |-> s]
        : v \in Views, n \in Seqs, s \in ZyzzyvaReplicaIds}

\* The certificates a client can send: a quorum of responses, not all of them
Certificates ==
    UNION {VecsOf(c) : c \in {c \in SUBSET ZyzzyvaVotes("SpeculativeResponse") :
                                 timeout_commit_check(State_new(CLIENT_ID, ZyzzyvaNodes),
                                                      Cardinality(c))}}

ZyzzyvaMessages(kind) ==
    CASE kind = "ClientRequest" ->
            {ZyzzyvaClientRequest(ZyzzyvaSimRequest), ZyzzyvaClientRequest(ZyzzyvaRequest)}
      [] kind = "ClientTimeout" -> {ClientTimeout(FIRST_REQUEST_ID)}
      [] kind = "OrderRequest" ->
            {m \in ZyzzyvaVotes("OrderRequest") : m.sender_id = 1}
      [] kind = "Commit" ->
            {Commit(FIRST_REQUEST_ID, c, CLIENT_ID) : c \in Certificates}
      [] OTHER -> ZyzzyvaVotes(kind)

ReplicaInit ==
    /\ node_type \in {"PBFT", "Zyzzyva"}
    /\ \E id \in RoleIds :
          replica = IF node_type = "PBFT"
                    THEN ReplicaState_new(id, PBFTNodes)
                    ELSE State_new(id, ZyzzyvaNodes)
    /\ msg = {}
    /\ repeated = FALSE
    /\ output = <<>>
    /\ results = <<>>
    /\ last_entry = {}
    /\ panicked = FALSE
    /\ sims = <<>>
    /\ NoCall

\* The node handles message m: r is what handle_message yields.
HandledBy(m, r) ==
    /\ replica' = r.self
    /\ output' = r.output
    /\ results' = r.results
    /\ last_entry' = r.entry
    /\ panicked' = r.panic
    /\ msg' = {m}
    /\ repeated' = (msg = {m})
    /\ UNCHANGED <<node_type, sims>>

Handled(m, r) ==
    /\ HandledBy(m, r)
    /\ UNCHANGED fvars

\* A node of this type is running (it has not panicked)
Running(type) == node_type = type /\ ~panicked

PBFTReceiveClientRequest ==
    /\ Running("PBFT")
    /\ replica.next_seq_num < MaxSeq
    /\ \E m \in PBFTMessages("ClientRequest") : Handled(m, pbft_handle_message(replica, m, 0))

PBFTReceivePrePrepare ==
    /\ Running("PBFT")
    /\ \E m \in PBFTMessages("PrePrepare") : Handled(m, pbft_handle_message(replica, m, 0))

PBFTReceivePrepare ==
    /\ Running("PBFT")
    /\ \E m \in PBFTMessages("Prepare") : Handled(m, pbft_handle_message(replica, m, 0))

PBFTReceiveCommit ==
    /\ Running("PBFT")
    /\ \E m \in PBFTMessages("Commit") : Handled(m, pbft_handle_message(replica, m, 0))

PBFTReceiveClientResponse ==
    /\ Running("PBFT")
    /\ \E m \in PBFTMessages("ClientResponse") : Handled(m, pbft_handle_message(replica, m, 0))

ZyzzyvaReceiveClientRequest ==
    /\ Running("Zyzzyva")
    /\ replica.next_seq_num < MaxSeq
    /\ \E m \in ZyzzyvaMessages("ClientRequest") : \E r \in zyzzyva_handle_message_outcomes(replica, m, 0) : Handled(m, r)

ZyzzyvaReceiveClientTimeout ==
    /\ Running("Zyzzyva")
    /\ \E m \in ZyzzyvaMessages("ClientTimeout") : \E r \in zyzzyva_handle_message_outcomes(replica, m, 0) : Handled(m, r)

ZyzzyvaReceiveOrderRequest ==
    /\ Running("Zyzzyva")
    /\ \E m \in ZyzzyvaMessages("OrderRequest") : \E r \in zyzzyva_handle_message_outcomes(replica, m, 0) : Handled(m, r)

ZyzzyvaReceiveSpeculativeResponse ==
    /\ Running("Zyzzyva")
    /\ \E m \in ZyzzyvaMessages("SpeculativeResponse") : \E r \in zyzzyva_handle_message_outcomes(replica, m, 0) : Handled(m, r)

ZyzzyvaReceiveCommit ==
    /\ Running("Zyzzyva")
    /\ \E m \in ZyzzyvaMessages("Commit") : \E r \in zyzzyva_handle_message_outcomes(replica, m, 0) : Handled(m, r)

ZyzzyvaReceiveLocalCommit ==
    /\ Running("Zyzzyva")
    /\ \E m \in ZyzzyvaMessages("LocalCommit") : \E r \in zyzzyva_handle_message_outcomes(replica, m, 0) : Handled(m, r)

ReplicaNext ==
    \/ PBFTReceiveClientRequest
    \/ PBFTReceivePrePrepare
    \/ PBFTReceivePrepare
    \/ PBFTReceiveCommit
    \/ PBFTReceiveClientResponse
    \/ ZyzzyvaReceiveClientRequest
    \/ ZyzzyvaReceiveClientTimeout
    \/ ZyzzyvaReceiveOrderRequest
    \/ ZyzzyvaReceiveSpeculativeResponse
    \/ ZyzzyvaReceiveCommit
    \/ ZyzzyvaReceiveLocalCommit

SpecReplica == ReplicaInit /\ [][ReplicaNext]_vars

(***************************************************************************)
(* One PBFT backup and the messages the other nodes send it for one        *)
(* operation: the PrePrepare of the primary, the Prepare of every other    *)
(* backup and the Commit of every other node.  Each is delivered once, in  *)
(* any order.                                                              *)
(***************************************************************************)
PBFTBackups == (1..PBFTNodes) \ {initial_view % PBFTNodes}

\* What the other nodes send to backup id for the request
MessagesFor(id) ==
    {PrePrepareMessage(PBFTRequest, initial_view, 1, initial_view % PBFTNodes)}
    \cup {PrepareMessage(PBFTRequest, initial_view, 1, s) : s \in PBFTBackups \ {id}}
    \cup {CommitMessage(PBFTRequest, initial_view, 1, s) : s \in (1..PBFTNodes) \ {id}}

DeliveryInit ==
    /\ node_type = "PBFT"
    /\ \E id \in PBFTBackups :
          /\ replica = ReplicaState_new(id, PBFTNodes)
          /\ pending = MessagesFor(id)
    /\ delivered = <<>>
    /\ msg = {}
    /\ repeated = FALSE
    /\ output = <<>>
    /\ results = <<>>
    /\ last_entry = {}
    /\ panicked = FALSE
    /\ sims = <<>>
    /\ call = [fn |-> "none"]
    /\ cluster = <<>>
    /\ threads = <<>>

\* One of the messages arrives and the node handles it
Deliver ==
    /\ ~panicked
    /\ \E m \in pending :
          /\ HandledBy(m, pbft_handle_message(replica, m, 0))
          /\ pending' = pending \ {m}
          /\ delivered' = Append(delivered, m)
    /\ UNCHANGED <<call, cluster, threads>>

DeliveryNext == Deliver

SpecDelivery == DeliveryInit /\ [][DeliveryNext]_vars

(***************************************************************************)
(* One PBFT backup and peers that may send anything: besides the primary's *)
(* PrePrepare, each peer's Prepare and Commit for the operation exists     *)
(* under each of two sequence numbers.  Each message is delivered at most  *)
(* once, in any order.                                                     *)
(***************************************************************************)
\* The sequence numbers a peer may put into its votes
VoteSeqs == {1, 2}

\* What the peers of backup id can send it for the request
VotesFor(id) ==
    {PrePrepareMessage(PBFTRequest, initial_view, 1, initial_view % PBFTNodes)}
    \cup {PrepareMessage(PBFTRequest, initial_view, n, s) :
              n \in VoteSeqs, s \in (1..PBFTNodes) \ {id}}
    \cup {CommitMessage(PBFTRequest, initial_view, n, s) :
              n \in VoteSeqs, s \in (1..PBFTNodes) \ {id}}

VotesInit ==
    /\ node_type = "PBFT"
    /\ replica = ReplicaState_new(CLIENT_ID, PBFTNodes)
    /\ pending = VotesFor(CLIENT_ID)
    /\ delivered = <<>>
    /\ msg = {}
    /\ repeated = FALSE
    /\ output = <<>>
    /\ results = <<>>
    /\ last_entry = {}
    /\ panicked = FALSE
    /\ sims = <<>>
    /\ call = [fn |-> "none"]
    /\ cluster = <<>>
    /\ threads = <<>>

\* One of the messages arrives and the node handles it
DeliverVote ==
    /\ ~panicked
    /\ \E m \in pending :
          /\ HandledBy(m, pbft_handle_message(replica, m, 0))
          /\ pending' = pending \ {m}
    /\ UNCHANGED <<call, delivered, cluster, threads>>

VotesNext == DeliverVote

SpecVotes == VotesInit /\ [][VotesNext]_vars

(***************************************************************************)
(* The PBFT primary and its clients.  The primary is handed client         *)
(* requests for any of the operations, in any order and repeatedly, and    *)
(* between them the Prepare and Commit votes of its first peer for the     *)
(* operations it has numbered.  `delivered` keeps the requests it handled, *)
(* in their order.                                                         *)
(***************************************************************************)
\* The operations the clients ask for
PrimaryOps == FIRST_REQUEST_ID .. (FIRST_REQUEST_ID + MaxSeq - 1)

PrimaryInit ==
    /\ node_type = "PBFT"
    /\ replica = ReplicaState_new(initial_view % PBFTNodes, PBFTNodes)
    /\ msg = {}
    /\ repeated = FALSE
    /\ output = <<>>
    /\ results = <<>>
    /\ last_entry = {}
    /\ panicked = FALSE
    /\ sims = <<>>
    /\ NoCall

\* A client's request arrives and the primary handles it
PrimaryReceiveClientRequest ==
    /\ ~panicked
    /\ replica.next_seq_num < MaxSeq
    /\ \E op \in PrimaryOps :
          LET m == PBFTClientRequest(ClientRequest(op, PBFT_CLIENT_SENDER))
          IN /\ HandledBy(m, pbft_handle_message(replica, m, 0))
             /\ delivered' = Append(delivered, m)
    /\ UNCHANGED <<call, pending, cluster, threads>>

\* A peer's vote on a numbered operation arrives and the primary handles it
PrimaryReceiveVote ==
    /\ ~panicked
    /\ \E op \in DOMAIN replica.log : \E kind \in {"Prepare", "Commit"} :
          LET entry == replica.log[op]
              m == [kind |-> kind, c_req |-> entry.client_request, view |-> entry.view,
                    seq_number |-> entry.seq_number, sender_id |-> replica.peers[1]]
          IN HandledBy(m, pbft_handle_message(replica, m, 0))
    /\ UNCHANGED fvars

PrimaryNext ==
    \/ PrimaryReceiveClientRequest
    \/ PrimaryReceiveVote

SpecPrimary == PrimaryInit /\ [][PrimaryNext]_vars

(***************************************************************************)
(* A Zyzzyva cluster: the client (CLIENT_ID) and NumReplicas replicas, and *)
(* one request.  What a node returns is sent to the node it names; what is *)
(* sent arrives at any later moment, in any order, or never: a message the *)
(* network omits is one that stays on its way for good.                    *)
(***************************************************************************)
\* A message on its way: the receiver and the message
Sent(to, message) == <<to, message>>

\* The Reception that create_events makes for the request
ClusterRequest == Sent(CLIENT_ID, ZyzzyvaClientRequest(ZyzzyvaSimRequest))

\* The outputs of a handler as messages on their way
SentOf(out) == {Sent(out[i][1], out[i][2]) : i \in DOMAIN out}

\* How often each message was sent, after the outputs of a handler
CountSent(sent, out) ==
    [p \in DOMAIN sent \cup SentOf(out) |->
        (IF p \in DOMAIN sent THEN sent[p] ELSE 0)
        + Cardinality({i \in DOMAIN out : Sent(out[i][1], out[i][2]) = p})]

ClusterInit ==
    /\ node_type = "Zyzzyva"
    /\ replica = State_new(CLIENT_ID, ZyzzyvaNodes)
    /\ msg = {}
    /\ repeated = FALSE
    /\ output = <<>>
    /\ results = <<>>
    /\ last_entry = {}
    /\ panicked = FALSE
    /\ sims = <<>>
    /\ call = [fn |-> "none"]
    /\ pending = {}
    /\ delivered = <<>>
    /\ cluster = [nodes |-> [id \in 1..ZyzzyvaNodes |-> State_new(id, ZyzzyvaNodes)],
                  net |-> {ClusterRequest},       \* on their way
                  sent |-> EmptyMap,              \* how often each message was sent
                  got |-> {},                     \* what has been handled
                  before_timeout |-> {},          \* senders of the responses the
                                                  \* client handled before its timeout
                  stream |-> <<>>,                \* the result records
                  panicked |-> FALSE]
    /\ threads = <<>>

\* The node a message is addressed to handles it (ZyzzyvaNode::handle_event)
ZyzzyvaNode_handle_event(c, p, r) ==
    [c EXCEPT
        !.nodes[p[1]] = r.self,
        !.net = (@ \ {p}) \cup SentOf(r.output),
        !.sent = CountSent(@, r.output),
        !.got = @ \cup {p},
        !.before_timeout =
            IF p[2].kind = "SpeculativeResponse"
                 /\ Sent(CLIENT_ID, ClientTimeout(p[2].c_req.operation)) \notin c.got
            THEN @ \cup {p[2].sender_id}
            ELSE @,
        !.stream = @ \o r.results,
        !.panicked = r.panic]

ClusterDeliver ==
    /\ cluster # <<>>
    /\ ~cluster.panicked
    /\ \E p \in cluster.net :
          \E r \in zyzzyva_handle_message_outcomes(cluster.nodes[p[1]], p[2], 0) :
              cluster' = ZyzzyvaNode_handle_event(cluster, p, r)
    /\ UNCHANGED <<rvars, sims, call, pending, delivered, threads>>

ClusterNext == ClusterDeliver

SpecCluster == ClusterInit /\ [][ClusterNext]_vars

\* The cluster with a network that omits nothing: a message on its way is
\* delivered in the end, after whatever delay.
SpecClusterNoOmission ==
    /\ ClusterInit
    /\ [][ClusterNext]_vars
    /\ WF_vars(ClusterDeliver)

(***************************************************************************)
(* Events and their order (simulation/event.rs, simulation/time.rs).       *)
(***************************************************************************)
RequestBatchConfig_new(number, interval) == [number |-> number, interval |-> interval]

AdminStop == [admin |-> "Stop"]

AdminClientRequests(config) == [admin |-> "ClientRequests", config |-> config]

Event_new_admin_stop == [time |-> 0, kind |-> "Admin", admin_type |-> AdminStop]

Event_new_admin_requests_from_config(config) ==
    [time |-> 0, kind |-> "Admin", admin_type |-> AdminClientRequests(config)]

Event_new_broadcast(id_from, id_to, message, time) ==
    [time |-> time, kind |-> "Broadcast",
     id_from |-> id_from, id_to |-> id_to, message |-> message]

Event_new_reception(id, message, time) ==
    [time |-> time, kind |-> "Reception", id |-> id, message |-> message]

Event_new_timeout(c_id, message, time) ==
    [time |-> time, kind |-> "Timeout", c_id |-> c_id, message |-> message]

\* Time::cmp: Less when self is at or after other, Greater when self is
\* before other; Equal is never returned.
Time_cmp(self, other) ==
    IF self >= other THEN "Less"
    ELSE IF self <= other THEN "Greater"
    ELSE "Equal"

\* An order of events by time that is not reversed
Event_le_not_reversed(a, b) == a.time <= b.time

\* `a <= b` of the PartialOrd that Event derives: the fields in order, time
\* first. Time's comparison never says Equal, so event_type is never asked.
Event_le(a, b) == Time_cmp(a.time, b.time) \in {"Less", "Equal"}

\* `a > b` of the same derived PartialOrd, on Time
Time_gt(a, b) == Time_cmp(a, b) = "Greater"

(***************************************************************************)
(* The event queue: std's BinaryHeap over Event, which orders its items    *)
(* with `<=` (simulation/mod.rs: pop and push).  Position i of the Vec is  *)
(* index i + 1 here.                                                       *)
(***************************************************************************)
Swap(data, i, j) == [data EXCEPT ![i] = data[j], ![j] = data[i]]

RECURSIVE sift_up(_, _, _)
\* while pos > start: stop when element <= parent, else move up
sift_up(data, start, pos) ==
    IF pos > start
    THEN LET parent == pos \div 2
         IN IF Event_le(data[pos], data[parent])
            THEN data
            ELSE sift_up(Swap(data, pos, parent), start, parent)
    ELSE data

RECURSIVE sift_down_to_bottom_from(_, _, _)
\* move the hole down to a leaf along the greater children, then sift_up
sift_down_to_bottom_from(data, start, pos) ==
    LET end == Len(data)
        left == 2 * pos
        right == 2 * pos + 1
    IN IF right <= end
       THEN LET child == IF Event_le(data[left], data[right]) THEN right ELSE left
            IN sift_down_to_bottom_from(Swap(data, pos, child), start, child)
       ELSE IF left = end
            THEN sift_up(Swap(data, pos, left), start, left)
            ELSE sift_up(data, start, pos)

BinaryHeap_push(data, item) == sift_up(Append(data, item), 1, Len(data) + 1)

\* pop of a non-empty heap: the item returned and the heap left
BinaryHeap_pop(data) ==
    LET last == data[Len(data)]
        rest == SubSeq(data, 1, Len(data) - 1)
    IN IF rest = <<>>
       THEN [item |-> last, data |-> rest]
       ELSE [item |-> rest[1],
             data |-> sift_down_to_bottom_from([rest EXCEPT ![1] = last], 1, 1)]

RECURSIVE add_events_to_queue(_, _)
add_events_to_queue(data, events) ==
    IF events = <<>> THEN data
    ELSE add_events_to_queue(BinaryHeap_push(data, Head(events)), Tail(events))

(***************************************************************************)
(* Request batches (simulation/config.rs).                                 *)
(***************************************************************************)
\* RequestBatchConfig::create_events; a node type without requests panics
create_events_panics(type) == type \notin {"PBFT", "Zyzzyva"}

\* A batch generator that counts the times of a batch from the start of the
\* run, not from the current time
create_events_from_start(config, request_id_counter, time, type) ==
    [counter \in 1..config.number |->
        IF type = "PBFT"
        THEN Event_new_reception(1,
                 PBFTClientRequest(ClientRequest(request_id_counter + counter - 1,
                                                 PBFT_CLIENT_SENDER)),
                 (counter - 1) * config.interval)
        ELSE Event_new_reception(CLIENT_ID,
                 ZyzzyvaClientRequest(ClientRequest(request_id_counter + counter - 1,
                                                    ZYZZYVA_SIM_SENDER)),
                 (counter - 1) * config.interval)]

\* A batch generator that gives every request of a batch the same id
create_events_one_id(config, request_id_counter, time, type) ==
    [counter \in 1..config.number |->
        IF type = "PBFT"
        THEN Event_new_reception(1,
                 PBFTClientRequest(ClientRequest(request_id_counter, PBFT_CLIENT_SENDER)),
                 time + (counter - 1) * config.interval)
        ELSE Event_new_reception(CLIENT_ID,
                 ZyzzyvaClientRequest(ClientRequest(request_id_counter, ZYZZYVA_SIM_SENDER)),
                 time + (counter - 1) * config.interval)]

create_events(config, request_id_counter, time, type) ==
    [counter \in 1..config.number |->
        IF type = "PBFT"
        THEN Event_new_reception(1,
                 PBFTClientRequest(ClientRequest(request_id_counter + counter - 1,
                                                 PBFT_CLIENT_SENDER)),
                 time + (counter - 1) * config.interval)
        ELSE Event_new_reception(CLIENT_ID,
                 ZyzzyvaClientRequest(ClientRequest(request_id_counter + counter - 1,
                                                    ZYZZYVA_SIM_SENDER)),
                 time + (counter - 1) * config.interval)]

\* log_result(self.time, None, "Simulation finished")
FinishedRecord(time) == [time |-> time, node |-> NO_NODE, phase |-> "Simulation finished"]

(***************************************************************************)
(* The network (network/mod.rs).  omission_prob is in percent.             *)
(***************************************************************************)
Network_new(omission_prob, delay_min, delay_max) ==
    [omission_prob |-> omission_prob, delay_min |-> delay_min, delay_max |-> delay_max]

\* A network that draws a delay even when delay_min = delay_max
network_delays_drawn(network) == network.delay_min .. (network.delay_max + 1)

\* The delays the network may draw: gen_range(min, max) excludes max
network_delays(network) ==
    IF network.delay_min = network.delay_max
    THEN {network.delay_min}
    ELSE network.delay_min .. (network.delay_max - 1)

\* A network that may omit a broadcast whatever the omission probability
handle_broadcast_lossy(network, time, broadcast) ==
    {{}} \cup {{Event_new_reception(broadcast.id_to, broadcast.message, time + delay)}
                 : delay \in network_delays(network)}

\* Network::handle_broadcast: the Option<Event> it may return, as sets.  With
\* a positive omission probability the draw may go either way; whether a
\* broadcast can be omitted is not decided here, so both outcomes stay open.
handle_broadcast(network, time, broadcast) ==
    (IF network.omission_prob > 0 THEN {{}} ELSE {})
    \cup {{Event_new_reception(broadcast.id_to, broadcast.message, time + delay)}
             : delay \in network_delays(network)}

(***************************************************************************)
(* The PBFT node (node/mod.rs).                                            *)
(***************************************************************************)
\* PBFTNode::handle_event: the outputs become Broadcast events NODE_DELAY ms on
PBFTNode_handle_event(state, reception, time) ==
    IF reception.message.kind \in {"ClientRequest", "PrePrepare", "Prepare", "Commit"}
    THEN LET r == pbft_handle_message(state, reception.message, time)
         IN [r EXCEPT !.output =
                [i \in 1..Len(r.output) |->
                    Event_new_broadcast(state.id, r.output[i][1], r.output[i][2],
                                        time + NODE_DELAY)]]
    ELSE Ret(state, <<>>, <<>>, {}, TRUE)

(***************************************************************************)
(* The simulation (simulation/mod.rs).                                     *)
(***************************************************************************)
Simulation_new(number_of_nodes, network, client_timeout) ==
    [event_queue |-> <<>>,
     node_map |-> [n \in 1..number_of_nodes |-> ReplicaState_new(n, number_of_nodes)],
     network |-> network,
     client_timeout |-> client_timeout,
     time |-> 0,
     request_counter |-> FIRST_REQUEST_ID,
     channel |-> <<>>,          \* the external mpsc channel, oldest first
     listening |-> TRUE,        \* the listener thread is alive
     timeout_active |-> FALSE,  \* start_handling's timeout_active.is_some()
     status |-> "running",      \* "running", "finished" (break) or "panicked"
     stream |-> <<>>,           \* the result records written so far
     batches |-> 0,             \* batches sent into the channel from outside
     stop_sent |-> FALSE,       \* a Stop was sent into the channel from outside
     popped |-> <<>>,           \* the last two events popped, oldest first
     admin_waited |-> FALSE]    \* the queue the last pop saw held an Admin
                                \* event and a non-Admin event

\* update_time panics when the event is before the current time
update_time_panics(sim, time) == Time_gt(time, sim.time)

\* An update_time that stores the time elapsed since the last event
update_time_elapsed(sim, time) == [sim EXCEPT !.time = time - sim.time]

\* update_time past its check: self.time = time
update_time(sim, time) == [sim EXCEPT !.time = time]

\* What the last pop saw and returned
Popped(sim, event) ==
    [sim EXCEPT
        !.popped = IF Len(@) = 2 THEN <<@[2], event>> ELSE Append(@, event),
        !.admin_waited =
            /\ \E i \in DOMAIN sim.event_queue : sim.event_queue[i].kind = "Admin"
            /\ \E i \in DOMAIN sim.event_queue : sim.event_queue[i].kind # "Admin"]

\* The arm of start_handling's match for a popped event, short of its
\* pushes: the simulations it may lead to, each with the events the arm
\* hands to add_event_to_queue, in their order.  sim0 is the simulation after
\* the pop.
handle_popped_event(sim0, event, type) ==
    LET sim1 == update_time(sim0, event.time)
        crashed == {[sim |-> [sim0 EXCEPT !.status = "panicked"], events |-> <<>>]}
    IN CASE event.kind = "Admin" ->
              IF event.admin_type.admin = "Stop"
              THEN {[sim |-> [sim0 EXCEPT !.stream = Append(@, FinishedRecord(sim0.time)),
                                          !.status = "finished"],
                     events |-> <<>>]}
              ELSE IF create_events_panics(type)
                   THEN crashed
                   ELSE {[sim |-> [sim0 EXCEPT
                                     !.request_counter = @ + event.admin_type.config.number],
                          events |-> create_events(event.admin_type.config,
                                                   sim0.request_counter, sim0.time, type)]}
         [] event.kind = "Reception" ->
              IF update_time_panics(sim0, event.time) \/ event.id \notin DOMAIN sim0.node_map
              THEN crashed
              ELSE LET r == PBFTNode_handle_event(sim0.node_map[event.id], event, sim1.time)
                   IN IF r.panic
                      THEN crashed
                      ELSE {[sim |-> [sim1 EXCEPT !.node_map[event.id] = r.self,
                                                  !.stream = @ \o r.results],
                             events |-> r.output]}
         [] event.kind = "Broadcast" ->
              IF update_time_panics(sim0, event.time)
              THEN crashed
              ELSE {[sim |-> sim1,
                     events |-> IF r = {} THEN <<>> ELSE <<CHOOSE e \in r : TRUE>>]
                      : r \in handle_broadcast(sim0.network, sim1.time, event)}
         [] event.kind = "Timeout" ->
              IF update_time_panics(sim0, event.time)
              THEN crashed
              ELSE {[sim |-> sim1,
                     events |-> <<Event_new_reception(event.c_id, event.message,
                                      sim1.time + sim0.client_timeout)>>]}

\* The simulation after a pop: what the pop saw and returned, and
\* timeout_active reset
after_pop(sim) ==
    LET p == BinaryHeap_pop(sim.event_queue)
    IN [Popped(sim, p.item) EXCEPT !.event_queue = p.data, !.timeout_active = FALSE]

\* One turn of start_handling's loop with an event in the queue: the
\* simulations it may lead to.
start_handling_event(sim, type) ==
    {[d.sim EXCEPT !.event_queue = add_events_to_queue(@, d.events)]
        : d \in handle_popped_event(after_pop(sim),
                                    BinaryHeap_pop(sim.event_queue).item, type)}

\* One turn of the listener thread: it takes the oldest event off the
\* channel and pushes it; a Stop ends the thread.
start_receiving_event(sim) ==
    LET event_type == Head(sim.channel)
    IN [sim EXCEPT
          !.channel = Tail(@),
          !.event_queue = BinaryHeap_push(@,
              IF event_type.admin = "Stop"
              THEN Event_new_admin_stop
              ELSE Event_new_admin_requests_from_config(event_type.config)),
          !.listening = (event_type.admin # "Stop")]

\* A send whose event never reaches the channel
external_send_lost(sim, event_type) == sim

\* external_sender.send(event_type)
external_send(sim, event_type) ==
    IF sim.listening
    THEN [sim EXCEPT !.channel = Append(@, event_type)]
    ELSE sim

(***************************************************************************)
(* Runs of the simulation.  NumReplicas PBFT nodes; the node under study   *)
(* alone is idle here.                                                     *)
(***************************************************************************)
\* The intervals and sizes of the batches sent in
Intervals == {0, 10}
BatchConfigs == {RequestBatchConfig_new(n, i) : n \in 1..BatchNumber, i \in Intervals}

\* The network settings of the ini: delay_min = delay_max, and a range that
\* gen_range draws from
Networks == {Network_new(0, 2, 2), Network_new(0, 4, 5)}

ClientTimeouts == {20}

NodeIdle ==
    /\ NoCall
    /\ node_type = "PBFT"
    /\ replica = ReplicaState_new(1, PBFTNodes)
    /\ msg = {}
    /\ repeated = FALSE
    /\ output = <<>>
    /\ results = <<>>
    /\ last_entry = {}
    /\ panicked = FALSE

SimulationInit ==
    /\ NodeIdle
    /\ \E network \in Networks : \E t \in ClientTimeouts :
          sims = <<Simulation_new(PBFTNodes, network, t)>>

\* A loop that goes on after its `break`
LiveAfterBreak(r) == r \in DOMAIN sims /\ sims[r].status # "panicked"

Live(r) == r \in DOMAIN sims /\ sims[r].status = "running"

\* A thread outside sends a batch of client requests (main.rs)
SendClientRequests(r) ==
    /\ Live(r)
    /\ sims[r].batches < MaxBatches
    /\ \E config \in BatchConfigs :
          sims' = [sims EXCEPT ![r] =
                      [external_send(@, AdminClientRequests(config))
                          EXCEPT !.batches = @ + 1]]
    /\ UNCHANGED <<rvars, fvars>>

\* A thread outside sends Stop
SendStop(r) ==
    /\ Live(r)
    /\ ~sims[r].stop_sent
    /\ sims' = [sims EXCEPT ![r] = [external_send(@, AdminStop) EXCEPT !.stop_sent = TRUE]]
    /\ UNCHANGED <<rvars, fvars>>

ListenerReceive(r) ==
    /\ r \in DOMAIN sims
    /\ sims[r].listening
    /\ sims[r].channel # <<>>
    /\ sims' = [sims EXCEPT ![r] = start_receiving_event(@)]
    /\ UNCHANGED <<rvars, fvars>>

HandleEvent(r) ==
    /\ Live(r)
    /\ sims[r].event_queue # <<>>
    /\ \E sim \in start_handling_event(sims[r], node_type) :
          sims' = [sims EXCEPT ![r] = sim]
    /\ UNCHANGED <<rvars, fvars>>

\* The queue is empty for the first time in a row
IdleStart(r) ==
    /\ Live(r)
    /\ sims[r].event_queue = <<>>
    /\ ~sims[r].timeout_active
    /\ sims' = [sims EXCEPT ![r].timeout_active = TRUE]
    /\ UNCHANGED <<rvars, fvars>>

\* The queue has been empty for more than a second: Stop is sent.  The
\* listener takes an event off the channel well within that second, so the
\* channel is empty by then.
IdleStop(r) ==
    /\ Live(r)
    /\ sims[r].event_queue = <<>>
    /\ sims[r].timeout_active
    /\ sims[r].channel = <<>>
    /\ sims' = [sims EXCEPT ![r] =
                  IF @.listening
                  THEN external_send(@, AdminStop)
                  ELSE [@ EXCEPT !.status = "panicked"]]
    /\ UNCHANGED <<rvars, fvars>>

SimulationNext ==
    \/ \E r \in DOMAIN sims : SendClientRequests(r)
    \/ \E r \in DOMAIN sims : SendStop(r)
    \/ \E r \in DOMAIN sims : ListenerReceive(r)
    \/ \E r \in DOMAIN sims : HandleEvent(r)
    \/ \E r \in DOMAIN sims : IdleStart(r)
    \/ \E r \in DOMAIN sims : IdleStop(r)

SpecSimulation == SimulationInit /\ [][SimulationNext]_vars

(***************************************************************************)
(* Two runs of the simulation side by side, with the same configuration    *)
(* and the same batch of requests sent in; omission_probability is 0 and   *)
(* delay_min = delay_max.                                                  *)
(***************************************************************************)
FixedDelays == {0, 2, 7}
ReplayNetworks == {Network_new(0, d, d) : d \in FixedDelays}

ReplayInit ==
    /\ NodeIdle
    /\ \E network \in ReplayNetworks : \E t \in ClientTimeouts : \E config \in BatchConfigs :
          sims = [r \in 1..2 |->
                    [external_send(Simulation_new(PBFTNodes, network, t),
                                   AdminClientRequests(config))
                        EXCEPT !.batches = 1]]

ReplayNext ==
    \/ \E r \in DOMAIN sims : ListenerReceive(r)
    \/ \E r \in DOMAIN sims : HandleEvent(r)
    \/ \E r \in DOMAIN sims : IdleStart(r)
    \/ \E r \in DOMAIN sims : IdleStop(r)

SpecReplay == ReplayInit /\ [][ReplayNext]_vars

(***************************************************************************)
(* One run to its end: main.rs sends one batch of requests and starts the  *)
(* loop; nobody sends Stop.  The main loop and the listener thread both    *)
(* keep running, and the wall clock keeps advancing while the queue is     *)
(* empty: each of their steps is taken if it stays possible.               *)
(***************************************************************************)
RunInit ==
    /\ NodeIdle
    /\ \E network \in Networks : \E t \in ClientTimeouts : \E config \in BatchConfigs :
          sims = <<[external_send(Simulation_new(PBFTNodes, network, t),
                                  AdminClientRequests(config))
                       EXCEPT !.batches = 1]>>

RunNext ==
    \/ ListenerReceive(1)
    \/ HandleEvent(1)
    \/ IdleStart(1)
    \/ IdleStop(1)

\* The main loop can pop an event.  Popping changes the queue and the record
\* of what was popped, so this is ENABLED <<HandleEvent(1)>>_vars.
CanHandleEvent == Live(1) /\ sims[1].event_queue # <<>>

\* Weak fairness of every step of the two threads; that of HandleEvent(1)
\* is written out with CanHandleEvent for its ENABLED.
SpecRun ==
    /\ RunInit
    /\ [][RunNext]_vars
    /\ WF_vars(ListenerReceive(1))
    /\ WF_vars(IdleStart(1))
    /\ WF_vars(IdleStop(1))
    /\ ([]<>(~CanHandleEvent) \/ []<><<HandleEvent(1)>>_vars)

(***************************************************************************)
(* One run that may be stopped from outside: main.rs sends one batch of    *)
(* requests and starts the loop, and a thread holding the sender sends     *)
(* Stop at any moment, or never.                                           *)
(***************************************************************************)
StoppedRunNext ==
    \/ SendStop(1)
    \/ ListenerReceive(1)
    \/ HandleEvent(1)
    \/ IdleStart(1)
    \/ IdleStop(1)

SpecStoppedRun == RunInit /\ [][StoppedRunNext]_vars

(***************************************************************************)
(* One run that is given more work while it is under way: main.rs sends    *)
(* one batch of requests and starts the loop, and a thread holding the     *)
(* sender sends a further batch at any moment, or never.                   *)
(***************************************************************************)
\* A thread outside sends a batch after the first
SendFurtherRequests(r) ==
    /\ Live(r)
    /\ sims[r].batches = 1
    /\ \E config \in BatchConfigs :
          sims' = [sims EXCEPT ![r] =
                      [external_send(@, AdminClientRequests(config))
                          EXCEPT !.batches = @ + 1]]
    /\ UNCHANGED <<rvars, fvars>>

FedRunNext ==
    \/ SendFurtherRequests(1)
    \/ ListenerReceive(1)
    \/ HandleEvent(1)
    \/ IdleStart(1)
    \/ IdleStop(1)

SpecFedRun == RunInit /\ [][FedRunNext]_vars

(***************************************************************************)
(* The two threads of a run and the lock of the queue, step by step.  The  *)
(* main loop locks, pops, drops the guard, runs the arm of the popped      *)
(* event and hands its events to add_event_to_queue, which locks, pushes   *)
(* and lets go for each; the listener takes an event off the channel,      *)
(* locks, pushes, and lets go at the end of its turn.  main.rs sends one   *)
(* batch and starts the loop; a thread holding the sender may send Stop.   *)
(***************************************************************************)
\* A main loop that keeps the guard of the pop while it handles the event
drop_queue_kept(lock) == lock

\* drop(queue) after the pop
drop_queue(lock) == "free"

LockInit ==
    /\ node_type = "PBFT"
    /\ replica = ReplicaState_new(1, PBFTNodes)
    /\ msg = {}
    /\ repeated = FALSE
    /\ output = <<>>
    /\ results = <<>>
    /\ last_entry = {}
    /\ panicked = FALSE
    /\ call = [fn |-> "none"]
    /\ pending = {}
    /\ delivered = <<>>
    /\ cluster = <<>>
    /\ \E network \in Networks : \E t \in ClientTimeouts : \E config \in BatchConfigs :
          sims = <<[external_send(Simulation_new(PBFTNodes, network, t),
                                  AdminClientRequests(config))
                       EXCEPT !.batches = 1]>>
    /\ threads = [lock |-> "free",      \* "free", or the thread that holds the guard
                  main |-> "lock",      \* where the main loop stands
                  listener |-> "recv",  \* where the listener stands
                  popped |-> {},        \* what the pop returned, as a set
                  events |-> <<>>,      \* the events the arm has yet to push
                  received |-> {},      \* what recv returned, as a set
                  held |-> 0]           \* queue operations under the guard held now

\* self.event_queue.lock() at the top of the loop
MainLock ==
    /\ Live(1)
    /\ threads.main = "lock"
    /\ threads.lock = "free"
    /\ threads' = [threads EXCEPT !.lock = "main", !.main = "pop", !.held = 0]
    /\ UNCHANGED <<rvars, sims, call, pending, delivered, cluster>>

\* (*queue).pop()
MainPop ==
    /\ threads.main = "pop"
    /\ IF sims[1].event_queue = <<>>
       THEN /\ threads' = [threads EXCEPT !.main = "drop", !.popped = {}, !.held = @ + 1]
            /\ sims' = sims
       ELSE /\ threads' = [threads EXCEPT
                             !.main = "drop",
                             !.popped = {BinaryHeap_pop(sims[1].event_queue).item},
                             !.held = @ + 1]
            /\ sims' = [sims EXCEPT ![1] = after_pop(@)]
    /\ UNCHANGED <<rvars, call, pending, delivered, cluster>>

\* drop(queue)
MainDrop ==
    /\ threads.main = "drop"
    /\ threads' = [threads EXCEPT !.lock = drop_queue(@),
                                  !.main = IF threads.popped = {} THEN "idle" ELSE "match"]
    /\ UNCHANGED <<rvars, sims, call, pending, delivered, cluster>>

\* match event.event_type { ... } up to the pushes of the arm
MainMatch ==
    /\ threads.main = "match"
    /\ \E event \in threads.popped :
          \E d \in handle_popped_event(sims[1], event, node_type) :
              /\ sims' = [sims EXCEPT ![1] = d.sim]
              /\ threads' = [threads EXCEPT
                                !.popped = {},
                                !.events = d.events,
                                !.main = IF d.sim.status # "running" THEN "done"
                                         ELSE IF d.events = <<>> THEN "lock"
                                         ELSE "push_lock"]
    /\ UNCHANGED <<rvars, call, pending, delivered, cluster>>

\* add_event_to_queue: self.event_queue.lock()
MainPushLock ==
    /\ threads.main = "push_lock"
    /\ threads.lock = "free"
    /\ threads' = [threads EXCEPT !.lock = "main", !.main = "push", !.held = 0]
    /\ UNCHANGED <<rvars, sims, call, pending, delivered, cluster>>

\* add_event_to_queue: (*queue).push(event)
MainPush ==
    /\ threads.main = "push"
    /\ sims' = [sims EXCEPT ![1].event_queue = BinaryHeap_push(@, Head(threads.events))]
    /\ threads' = [threads EXCEPT !.events = Tail(@), !.main = "push_drop", !.held = @ + 1]
    /\ UNCHANGED <<rvars, call, pending, delivered, cluster>>

\* add_event_to_queue returns: its guard goes out of scope
MainPushDrop ==
    /\ threads.main = "push_drop"
    /\ threads' = [threads EXCEPT
                      !.lock = "free",
                      !.main = IF threads.events = <<>> THEN "lock" ELSE "push_lock"]
    /\ UNCHANGED <<rvars, sims, call, pending, delivered, cluster>>

\* The pop returned None and timeout_active is None: it is set
MainIdleStart ==
    /\ threads.main = "idle"
    /\ ~sims[1].timeout_active
    /\ sims' = [sims EXCEPT ![1].timeout_active = TRUE]
    /\ threads' = [threads EXCEPT !.main = "lock"]
    /\ UNCHANGED <<rvars, call, pending, delivered, cluster>>

\* The pop returned None, timeout_active is set, less than a second has
\* passed: the loop sleeps and goes round
MainIdleSleep ==
    /\ threads.main = "idle"
    /\ sims[1].timeout_active
    /\ threads' = [threads EXCEPT !.main = "lock"]
    /\ UNCHANGED <<rvars, sims, call, pending, delivered, cluster>>

\* The pop returned None and the queue has been empty for more than a
\* second: Stop is sent.  The listener takes an event off the channel and
\* pushes it well within that second, so it has nothing in hand by then.
MainIdleStop ==
    /\ threads.main = "idle"
    /\ sims[1].timeout_active
    /\ sims[1].channel = <<>>
    /\ threads.listener \in {"recv", "done"}
    /\ sims[1].event_queue = <<>>
    /\ sims' = [sims EXCEPT ![1] =
                  IF @.listening
                  THEN external_send(@, AdminStop)
                  ELSE [@ EXCEPT !.status = "panicked"]]
    /\ threads' = [threads EXCEPT !.main = IF sims[1].listening THEN "lock" ELSE "done"]
    /\ UNCHANGED <<rvars, call, pending, delivered, cluster>>

\* receiver.recv() returns an event
ListenerRecv ==
    /\ threads.listener = "recv"
    /\ sims[1].channel # <<>>
    /\ sims' = [sims EXCEPT ![1].channel = Tail(@)]
    /\ threads' = [threads EXCEPT !.listener = "lock",
                                  !.received = {Head(sims[1].channel)}]
    /\ UNCHANGED <<rvars, call, pending, delivered, cluster>>

\* queue_clone.lock()
ListenerLock ==
    /\ threads.listener = "lock"
    /\ threads.lock = "free"
    /\ threads' = [threads EXCEPT !.lock = "listener", !.listener = "push", !.held = 0]
    /\ UNCHANGED <<rvars, sims, call, pending, delivered, cluster>>

\* (*queue).push(...) of the Admin event received
ListenerPush ==
    /\ threads.listener = "push"
    /\ \E event_type \in threads.received :
          sims' = [sims EXCEPT ![1].event_queue =
                      BinaryHeap_push(@,
                          IF event_type.admin = "Stop"
                          THEN Event_new_admin_stop
                          ELSE Event_new_admin_requests_from_config(event_type.config))]
    /\ threads' = [threads EXCEPT !.listener = "drop", !.held = @ + 1]
    /\ UNCHANGED <<rvars, call, pending, delivered, cluster>>

\* The guard goes out of scope: at the end of the turn, or with the thread
\* after the break that follows a Stop
ListenerDrop ==
    /\ threads.listener = "drop"
    /\ \E event_type \in threads.received :
          /\ threads' = [threads EXCEPT
                            !.lock = "free",
                            !.received = {},
                            !.listener = IF event_type.admin = "Stop" THEN "done"
                                         ELSE "recv"]
          /\ sims' = [sims EXCEPT ![1].listening = (event_type.admin # "Stop")]
    /\ UNCHANGED <<rvars, call, pending, delivered, cluster>>

\* A thread outside sends Stop
LockSendStop ==
    /\ Live(1)
    /\ ~sims[1].stop_sent
    /\ sims' = [sims EXCEPT ![1] = [external_send(@, AdminStop) EXCEPT !.stop_sent = TRUE]]
    /\ UNCHANGED <<rvars, call, pending, delivered, cluster, threads>>

LockNext ==
    \/ MainLock
    \/ MainPop
    \/ MainDrop
    \/ MainMatch
    \/ MainPushLock
    \/ MainPush
    \/ MainPushDrop
    \/ MainIdleStart
    \/ MainIdleSleep
    \/ MainIdleStop
    \/ ListenerRecv
    \/ ListenerLock
    \/ ListenerPush
    \/ ListenerDrop
    \/ LockSendStop

\* The main loop holds the guard and has the step that leads to letting it
\* go before it
MainHolds == threads.main \in {"pop", "drop", "push", "push_drop"}

\* A thread that holds the guard goes on to let it go (weak fairness of its
\* steps, every one of which changes where the thread stands), and a thread
\* that waits for a lock which is free again and again gets it (strong
\* fairness of the listener's lock).
SpecLock ==
    /\ LockInit
    /\ [][LockNext]_vars
    /\ ([]<>(~MainHolds)
          \/ []<><<MainPop \/ MainDrop \/ MainPush \/ MainPushDrop>>_vars)
    /\ ([]<>(threads.listener \notin {"push", "drop"})
          \/ []<><<ListenerPush \/ ListenerDrop>>_vars)
    /\ (<>[](~(threads.listener = "lock" /\ threads.lock = "free"))
          \/ []<><<ListenerLock>>_vars)

(***************************************************************************)
(* Functions called on their own: the comparison of two times and the      *)
(* constructors of the two replica states.                                 *)
(***************************************************************************)
\* The times compared are 0..MaxMs milliseconds
MaxMs == 7
\* The node counts given to the constructors go up to MaxNodes
MaxNodes == 12

\* The delay bounds given to the network go up to MaxDelay milliseconds
MaxDelay == 3

\* ReplicaState::new panics below 4 nodes, State::new below 5
ReplicaState_new_panics(num_of_nodes) == num_of_nodes < 4
State_new_panics(num_of_nodes) == num_of_nodes < 5

CallsInit ==
    /\ NodeIdle
    /\ sims = <<>>

\* self.cmp(&other) on two times
CallTimeCmp ==
    /\ \E self \in 0..MaxMs : \E other \in 0..MaxMs :
          call' = [fn |-> "Time::cmp", self |-> self, other |-> other,
                   result |-> Time_cmp(self, other)]
    /\ UNCHANGED <<rvars, sims, pending, delivered, cluster, threads>>

\* ReplicaState::new(id, num_of_nodes); the result is empty after a panic
CallReplicaStateNew ==
    /\ \E num_of_nodes \in 3..MaxNodes : \E id \in 1..num_of_nodes :
          call' = [fn |-> "ReplicaState::new", id |-> id, num_of_nodes |-> num_of_nodes,
                   result |-> IF ReplicaState_new_panics(num_of_nodes) THEN {}
                              ELSE {ReplicaState_new(id, num_of_nodes)}]
    /\ UNCHANGED <<rvars, sims, pending, delivered, cluster, threads>>

\* State::new(id, num_of_nodes), the client being one of the nodes
CallStateNew ==
    /\ \E num_of_nodes \in 4..(MaxNodes + 1) : \E id \in 1..num_of_nodes :
          call' = [fn |-> "State::new", id |-> id, num_of_nodes |-> num_of_nodes,
                   result |-> IF State_new_panics(num_of_nodes) THEN {}
                              ELSE {State_new(id, num_of_nodes)}]
    /\ UNCHANGED <<rvars, sims, pending, delivered, cluster, threads>>

\* gen_range(low, high) panics unless low < high
handle_broadcast_panics(network) == network.delay_min > network.delay_max

\* The networks a configuration can describe: omission in percent
CallNetworks ==
    {Network_new(o, lo, hi) : o \in {0, 50}, lo \in 0..MaxDelay, hi \in 0..MaxDelay}

\* The Broadcast events a PBFT node makes from its PrePrepare
CallBroadcasts ==
    {Event_new_broadcast(m.sender_id, id_to, m, 0)
        : m \in PBFTVotes("PrePrepare"), id_to \in 1..PBFTNodes}

CallsNext ==
    \/ CallTimeCmp
    \/ CallReplicaStateNew
    \/ CallStateNew

SpecCalls == CallsInit /\ [][CallsNext]_vars

(***************************************************************************)
(* Batches expanded one after the other, as the ClientRequests arm of      *)
(* start_handling does it: each call gets the request counter the calls    *)
(* before it left and the time of the simulation, which never goes back.   *)
(***************************************************************************)
\* The batches hold up to MaxNumber requests
MaxNumber == 3

ExpandedConfigs == {RequestBatchConfig_new(n, i) : n \in 0..MaxNumber, i \in Intervals}

BatchesInit ==
    /\ node_type = "none"
    /\ replica = <<>>
    /\ msg = {}
    /\ repeated = FALSE
    /\ output = <<>>
    /\ results = <<>>
    /\ last_entry = {}
    /\ panicked = FALSE
    /\ sims = <<>>
    /\ pending = {}
    /\ delivered = <<>>
    /\ cluster = <<>>
    /\ threads = <<>>
    /\ \E type \in {"PBFT", "Zyzzyva"} :
          call = [fn |-> "none", type |-> type, time |-> 0,
                  request_counter |-> FIRST_REQUEST_ID, events |-> <<>>, batches |-> 0]

\* config.create_events(&mut self.request_counter, self.time, self.node_type)
ExpandBatch ==
    /\ call.fn \in {"none", "create_events"}
    /\ call.batches <= MaxBatches
    /\ \E config \in ExpandedConfigs : \E now \in call.time..MaxMs :
          LET new_events == create_events(config, call.request_counter, now, call.type)
          IN call' = [fn |-> "create_events", type |-> call.type, time |-> now,
                      config |-> config, before |-> call.request_counter,
                      request_counter |-> call.request_counter + config.number,
                      result |-> new_events,
                      events |-> call.events \o new_events,
                      batches |-> call.batches + 1]
    /\ UNCHANGED <<rvars, sims, pending, delivered, cluster, threads>>

BatchesNext == ExpandBatch

SpecBatches == BatchesInit /\ [][BatchesNext]_vars

(***************************************************************************)
(* The network called on its own: a network, the time of the simulation    *)
(* and a Broadcast event are drawn, and handle_broadcast is applied once.  *)
(***************************************************************************)
NetworkInit ==
    /\ node_type = "none"
    /\ replica = <<>>
    /\ msg = {}
    /\ repeated = FALSE
    /\ output = <<>>
    /\ results = <<>>
    /\ last_entry = {}
    /\ panicked = FALSE
    /\ sims = <<>>
    /\ pending = {}
    /\ delivered = <<>>
    /\ cluster = <<>>
    /\ threads = <<>>
    /\ \E network \in CallNetworks : \E time \in 0..MaxMs : \E broadcast \in CallBroadcasts :
          call = [fn |-> "none", network |-> network, time |-> time,
                  broadcast |-> broadcast]

\* network.handle_broadcast(time, broadcast): the result is the Option<Event>
\* as a set; a panic of the draw leaves no result
CallHandleBroadcast ==
    /\ call.fn = "none"
    /\ \E r \in [panic : {FALSE},
                 event : handle_broadcast(call.network, call.time, call.broadcast)]
                   \cup (IF handle_broadcast_panics(call.network)
                         THEN {[panic |-> TRUE, event |-> {}]} ELSE {}) :
          call' = [fn |-> "Network::handle_broadcast", network |-> call.network,
                   time |-> call.time, broadcast |-> call.broadcast,
                   panic |-> r.panic, result |-> r.event]
    /\ UNCHANGED <<rvars, sims, pending, delivered, cluster, threads>>

NetworkNext == CallHandleBroadcast

SpecNetwork == NetworkInit /\ [][NetworkNext]_vars

(***************************************************************************)
(* Properties of a node under arbitrary message delivery (SpecReplica).    *)
(***************************************************************************)
\* The phases of the result records the last handler wrote
Phases == {results[i].phase : i \in DOMAIN results}

\* The Prepare/Commit votes of PBFT and the messages Zyzzyva's ignore filter
\* names
IsPBFTVote(m) == m.kind \in {"Prepare", "Commit"}
IsZyzzyvaFiltered(m) == m.kind \in {"SpeculativeResponse", "LocalCommit", "OrderRequest"}

\* C3: a PBFT log entry's prepared flag becomes true only in a step where its
\* prepare set holds a PrePrepare and at least quorum_size messages in total;
\* an entry whose prepare set holds no PrePrepare is not prepared, however
\* many Prepare messages it holds.
C3_PreparedNeedsPrePrepareAndQuorum ==
    node_type = "PBFT" =>
        /\ "prepared" \in Phases =>
              /\ last_entry # {}
              /\ \A e \in last_entry :
                    /\ \E m \in e.prepare_quorum : m.kind = "PrePrepare"
                    /\ Cardinality(e.prepare_quorum) >= replica.quorum_size
        /\ \A op \in DOMAIN replica.log :
              replica.log[op].prepared =>
                 /\ \E m \in replica.log[op].prepare_quorum : m.kind = "PrePrepare"
                 /\ Cardinality(replica.log[op].prepare_quorum) >= replica.quorum_size

\* C3 witness: a replica has just written "prepared" for the request
C3_Witness == node_type = "PBFT" /\ "prepared" \in Phases /\ ~panicked

\* C4: a PBFT operation becomes committed_local only in a step where its entry
\* is prepared and its commit set has at least quorum_size members; an entry
\* that is not prepared is not committed_local, whatever its commit set.
C4_CommittedNeedsPreparedAndQuorum ==
    node_type = "PBFT" =>
        /\ "committed_local" \in Phases =>
              /\ last_entry # {}
              /\ \A e \in last_entry :
                    /\ e.prepared
                    /\ Cardinality(e.commit_quorum) >= replica.quorum_size
        /\ \A op \in DOMAIN replica.log :
              ~replica.log[op].prepared => ~replica.log[op].committed_local

\* C4 witness: a replica has just written "committed_local" for the request
C4_Witness == node_type = "PBFT" /\ "committed_local" \in Phases /\ ~panicked

\* C5: once an operation is in committed_requests (cl_reqs), handling a PBFT
\* Prepare or Commit, or a Zyzzyva SpeculativeResponse, LocalCommit or
\* OrderRequest, for it returns no output and leaves the node's state as it was.
C5_FilteredMessageIsNoOp ==
    [][\A m \in msg' :
          (/\ IF node_type = "PBFT" THEN IsPBFTVote(m) ELSE IsZyzzyvaFiltered(m)
           /\ m.c_req.operation \in replica.cl_reqs)
          => /\ replica' = replica
             /\ output' = <<>>
             /\ results' = <<>>
             /\ ~panicked']_rvars

\* C5 witness: the message handled last was such a message for a committed
\* operation, and the handler returned at once
C5_Witness ==
    /\ ~panicked
    /\ last_entry = {}
    /\ \E m \in msg :
          /\ IF node_type = "PBFT" THEN IsPBFTVote(m) ELSE IsZyzzyvaFiltered(m)
          /\ m.c_req.operation \in replica.cl_reqs

\* C6 (as claimed): no operation is at once a key of the log and a member of
\* committed_requests.
C6_NoEntryForCommittedOperation ==
    DOMAIN replica.log \cap replica.cl_reqs = {}

\* The flags of a log entry the monotonicity claim names
EntryFlags ==
    IF node_type = "PBFT"
    THEN {"prepared", "committed_local"}
    ELSE {"committed_local", "completed", "timed_out"}

\* C7 (as claimed): a flag of an operation's log entry that is true is not
\* false after the next handled message.
C7_FlagsNeverRevert ==
    [][\A op \in DOMAIN replica.log \cap DOMAIN replica'.log :
          \A flag \in EntryFlags :
             replica.log[op][flag] => replica'.log[op][flag]]_rvars

\* C8 (as claimed): handling the same message a second time directly after
\* the first leaves the state as it was and returns no output.
C8_Original_EveryMessageIdempotent ==
    [][(msg' = msg /\ ~panicked) => (replica' = replica /\ output' = <<>> /\ ~panicked')]_rvars

\* The quorum votes: PBFT Prepare and Commit, Zyzzyva SpeculativeResponse and
\* LocalCommit
IsQuorumVote(m) ==
    IF node_type = "PBFT"
    THEN m.kind \in {"Prepare", "Commit"}
    ELSE m.kind \in {"SpeculativeResponse", "LocalCommit"}

\* C8 (amended): handling the same quorum vote a second time directly after
\* the first leaves the state as it was after the first delivery and returns
\* no output.
C8_DuplicateVoteIdempotent ==
    [][(msg' = msg /\ \E m \in msg : IsQuorumVote(m))
          => (replica' = replica /\ output' = <<>> /\ ~panicked')]_rvars

\* C8 witness: a quorum vote was handled twice in a row
C8_Witness == repeated /\ ~panicked /\ \E m \in msg : IsQuorumVote(m)

\* C9: a "completed" record written by the SpeculativeResponse handler comes
\* with a certificate of exactly n_rep members; one written by the LocalCommit
\* handler comes with at least quorum_size local commits.
C9_CompletedCertificate ==
    (node_type = "Zyzzyva" /\ "completed" \in Phases) =>
        /\ last_entry # {}
        /\ \A m \in msg : \A e \in last_entry :
              /\ m.kind \in {"SpeculativeResponse", "LocalCommit"}
              /\ m.kind = "SpeculativeResponse" =>
                    Cardinality(e.commit_certificate) = replica.num_of_nodes
              /\ m.kind = "LocalCommit" =>
                    Cardinality(e.local_commits) >= replica.quorum_size

\* C9 witness: the client completed the request on the slow path
C9_Witness ==
    /\ node_type = "Zyzzyva"
    /\ "completed" \in Phases
    /\ \E m \in msg : m.kind = "LocalCommit"

\* The client completed the request on the fast path
C9_FastPathReached ==
    /\ node_type = "Zyzzyva"
    /\ "completed" \in Phases
    /\ \E m \in msg : m.kind = "SpeculativeResponse"

(***************************************************************************)
(* Properties of the scheduler (SpecSimulation, SpecReplay).               *)
(***************************************************************************)
IsAdmin(event) == event.kind = "Admin"

\* C1 (as claimed): of two events popped one after the other, e1 then e2,
\* e1.time <= e2.time or e1 is an Admin event.
C1_Original_TimeOrderedUnlessFirstAdmin ==
    \A r \in DOMAIN sims :
        Len(sims[r].popped) = 2 =>
            \/ sims[r].popped[1].time <= sims[r].popped[2].time
            \/ IsAdmin(sims[r].popped[1])

\* C1 (amended): of two events popped one after the other, e1 then e2,
\* e1.time <= e2.time or one of e1 and e2 is an Admin event.
C1_TimeOrderedUnlessAdmin ==
    \A r \in DOMAIN sims :
        Len(sims[r].popped) = 2 =>
            \/ sims[r].popped[1].time <= sims[r].popped[2].time
            \/ IsAdmin(sims[r].popped[1])
            \/ IsAdmin(sims[r].popped[2])

\* C1 witness: two events that are not Admin events were popped one after
\* the other, the second later than the first
C1_Witness ==
    \E r \in DOMAIN sims :
        /\ Len(sims[r].popped) = 2
        /\ ~IsAdmin(sims[r].popped[1])
        /\ ~IsAdmin(sims[r].popped[2])
        /\ sims[r].popped[1].time < sims[r].popped[2].time

\* C2 (as claimed): when the queue holds an Admin event together with
\* non-Admin events, the next pop returns the Admin event.
C2_AdminPoppedFirst ==
    \A r \in DOMAIN sims :
        sims[r].admin_waited => IsAdmin(sims[r].popped[Len(sims[r].popped)])

\* b continues a
IsPrefix(a, b) == Len(a) <= Len(b) /\ a = SubSeq(b, 1, Len(a))

C18_TimeNeverDecreases ==
    [][\A r \in DOMAIN sims : sims'[r].time >= sims[r].time]_vars

\* The time has advanced from one processed event to the next
C18_Witness ==
    \E r \in DOMAIN sims :
        /\ Len(sims[r].popped) = 2
        /\ sims[r].popped[1].kind # "Admin"
        /\ 0 < sims[r].popped[1].time
        /\ sims[r].popped[1].time < sims[r].popped[2].time
        /\ sims[r].time = sims[r].popped[2].time


(***************************************************************************)
(* C19: the comparison of two times is the exact reverse of the order of   *)
(* their milliseconds: a.cmp(b) is Greater exactly when a.ms < b.ms, Less  *)
(* exactly when a.ms > b.ms, and Equal exactly when a.ms = b.ms.           *)
(***************************************************************************)
C19_ReversedOrderKeepsEqual ==
    call.fn = "Time::cmp" =>
        /\ (call.result = "Greater") <=> (call.self < call.other)
        /\ (call.result = "Less") <=> (call.self > call.other)
        /\ (call.result = "Equal") <=> (call.self = call.other)

(***************************************************************************)
(* C17: for every node count a constructor accepts (PBFT: n >= 4 nodes;    *)
(* Zyzzyva: n = configured nodes - 1 >= 4 replicas) the quorum_size of the *)
(* new state is 2f + 1 with f = floor((n - 1) / 3).                        *)
(***************************************************************************)
C17_QuorumOfFloor ==
    call.fn \in {"ReplicaState::new", "State::new"} =>
        \A state \in call.result :
            state.quorum_size = 2 * ((state.num_of_nodes - 1) \div 3) + 1


(***************************************************************************)
(* The result stream of a run.                                             *)
(***************************************************************************)
\* The records of the stream for an operation in a phase
PhaseRecords(stream, op, phase) ==
    {i \in DOMAIN stream : stream[i].phase = phase /\ stream[i].op = op}

\* The nodes that wrote a record for an operation in a phase
PhaseNodes(stream, op, phase) ==
    {stream[i].node : i \in PhaseRecords(stream, op, phase)}

\* The run handled exactly one request and ended of itself, no Stop having
\* been sent from outside
OneRequestRunEnded(sim) ==
    /\ sim.status = "finished"
    /\ ~sim.stop_sent
    /\ sim.request_counter = FIRST_REQUEST_ID + 1

\* The stream ends with its only "Simulation finished" record
EndsFinished(sim) ==
    /\ sim.stream # <<>>
    /\ sim.stream[Len(sim.stream)] = FinishedRecord(sim.time)
    /\ \A i \in 1..(Len(sim.stream) - 1) : sim.stream[i].phase # "Simulation finished"

(***************************************************************************)
(* C12 as stated: a PBFT run of 4 nodes with one request and no omission   *)
(* ends with exactly 10 records for the operation (1 request, 3            *)
(* pre-prepared, 3 prepared, 3 committed_local) and then one "Simulation   *)
(* finished".                                                              *)
(***************************************************************************)
C12_Original_TenRecords ==
    \A r \in DOMAIN sims :
        (OneRequestRunEnded(sims[r]) /\ PBFTNodes = 4) =>
            /\ Len(sims[r].stream) = 10 + 1
            /\ Cardinality(PhaseRecords(sims[r].stream, FIRST_REQUEST_ID, "request")) = 1
            /\ Cardinality(PhaseRecords(sims[r].stream, FIRST_REQUEST_ID, "pre-prepared")) = 3
            /\ Cardinality(PhaseRecords(sims[r].stream, FIRST_REQUEST_ID, "prepared")) = 3
            /\ Cardinality(PhaseRecords(sims[r].stream, FIRST_REQUEST_ID, "committed_local")) = 3
            /\ EndsFinished(sims[r])

(***************************************************************************)
(* C12: a PBFT run of n nodes with one request and no omission ends with   *)
(* exactly 3n records for the operation, 12 for n = 4: 1 request at the    *)
(* primary, n - 1 pre-prepared at the backups, n prepared and n            *)
(* committed_local, one at every node, the primary too; one "Simulation    *)
(* finished" follows.                                                      *)
(***************************************************************************)
C12_RecordsOfOneRequest ==
    \A r \in DOMAIN sims :
        OneRequestRunEnded(sims[r]) =>
            LET stream == sims[r].stream
                nodes == DOMAIN sims[r].node_map
                n == Cardinality(nodes)
                op == FIRST_REQUEST_ID
            IN /\ Len(stream) = 3 * n + 1
               /\ Cardinality(PhaseRecords(stream, op, "request")) = 1
               /\ PhaseNodes(stream, op, "request") = {1}
               /\ Cardinality(PhaseRecords(stream, op, "pre-prepared")) = n - 1
               /\ PhaseNodes(stream, op, "pre-prepared") = nodes \ {1}
               /\ Cardinality(PhaseRecords(stream, op, "prepared")) = n
               /\ PhaseNodes(stream, op, "prepared") = nodes
               /\ Cardinality(PhaseRecords(stream, op, "committed_local")) = n
               /\ PhaseNodes(stream, op, "committed_local") = nodes
               /\ EndsFinished(sims[r])

\* A run of one request has ended of itself
C12_Witness ==
    \E r \in DOMAIN sims :
        /\ OneRequestRunEnded(sims[r])
        /\ sims[r].network.omission_prob = 0
        /\ PhaseRecords(sims[r].stream, FIRST_REQUEST_ID, "committed_local") # {}


(***************************************************************************)
(* C20: every run with a finite batch of requests terminates: the queue    *)
(* drains and stays empty past the idle limit, the scheduler sends         *)
(* Admin(Stop), the listener puts it into the queue and ends, the main     *)
(* loop pops it, writes exactly one "Simulation finished" record stamped   *)
(* with the virtual time of that moment, and exits.                        *)
(***************************************************************************)
\* The run has ended on a Stop that came through the listener
EndedOnStop(sim) ==
    /\ sim.status = "finished"
    /\ ~sim.listening
    /\ sim.popped[Len(sim.popped)] = Event_new_admin_stop
    /\ EndsFinished(sim)

C20_RunTerminates ==
    /\ <>[](sims[1].status = "finished")
    /\ [](sims[1].status = "finished" => EndedOnStop(sims[1]))
    /\ [](sims[1].status # "finished" =>
             \A i \in DOMAIN sims[1].stream :
                 sims[1].stream[i].phase # "Simulation finished")

\* A run that handled its requests has ended on the Stop of the idle queue
C20_Witness ==
    /\ DOMAIN sims = {1}
    /\ EndedOnStop(sims[1])
    /\ ~sims[1].stop_sent
    /\ sims[1].event_queue = <<>>
    /\ sims[1].time > 0
    /\ sims[1].request_counter > FIRST_REQUEST_ID


(***************************************************************************)
(* C11: in a PBFT run with omission probability 0 into which no Stop is    *)
(* sent before the queue drains, for every injected request the primary    *)
(* logs "request", every backup logs "pre-prepared", and at least          *)
(* quorum_size replicas eventually log "prepared" and then                 *)
(* "committed_local".                                                      *)
(***************************************************************************)
\* The requests a run may be given
RunOps == FIRST_REQUEST_ID .. (FIRST_REQUEST_ID + BatchNumber - 1)

\* create_events has made the Reception of this request
Injected(sim, op) == FIRST_REQUEST_ID <= op /\ op < sim.request_counter

\* The node logged "prepared" for the operation and later "committed_local"
PreparedThenCommitted(stream, op, node) ==
    \E i \in PhaseRecords(stream, op, "prepared") :
        \E j \in PhaseRecords(stream, op, "committed_local") :
            i < j /\ stream[i].node = node /\ stream[j].node = node

LoggedAtQuorum(sim, op) ==
    LET nodes == DOMAIN sim.node_map
        quorum_size == sim.node_map[1].quorum_size
    IN /\ PhaseNodes(sim.stream, op, "request") = {1}
       /\ PhaseNodes(sim.stream, op, "pre-prepared") = nodes \ {1}
       /\ Cardinality(PhaseNodes(sim.stream, op, "prepared")) >= quorum_size
       /\ Cardinality({node \in nodes : PreparedThenCommitted(sim.stream, op, node)})
              >= quorum_size

C11_EveryRequestCommitsAtQuorum ==
    \A op \in RunOps :
        (sims[1].network.omission_prob = 0 /\ Injected(sims[1], op))
            ~> LoggedAtQuorum(sims[1], op)

\* A request has been logged through all its phases while the run goes on
C11_Witness ==
    /\ DOMAIN sims = {1}
    /\ sims[1].status = "running"
    /\ ~sims[1].stop_sent
    /\ sims[1].network.omission_prob = 0
    /\ Injected(sims[1], FIRST_REQUEST_ID)
    /\ LoggedAtQuorum(sims[1], FIRST_REQUEST_ID)


(***************************************************************************)
(* C13: whatever the order in which the primary's PrePrepare and the other *)
(* replicas' Prepares and Commits for one operation are delivered to a     *)
(* PBFT backup, each once, Prepares and Commits possibly before the        *)
(* PrePrepare, the backup ends with the operation committed_local.         *)
(***************************************************************************)
C13_AnyOrderCommits ==
    pending = {} =>
        /\ ~panicked
        /\ PBFTRequest.operation \in replica.cl_reqs

\* Position of the PrePrepare among the delivered messages (0: not yet)
PrePrepareAt ==
    IF \E i \in DOMAIN delivered : delivered[i].kind = "PrePrepare"
    THEN CHOOSE i \in DOMAIN delivered : delivered[i].kind = "PrePrepare"
    ELSE 0

\* Everything was delivered, a Commit first and a Prepare before the
\* PrePrepare, and the node wrote "committed_local"
C13_Witness ==
    /\ pending = {}
    /\ delivered # <<>>
    /\ delivered[1].kind = "Commit"
    /\ \E i \in 1..(PrePrepareAt - 1) : delivered[i].kind = "Prepare"
    /\ PBFTRequest.operation \in replica.cl_reqs
    /\ ~panicked

(***************************************************************************)
(* C14: a PBFT replica that first collected a commit quorum while not      *)
(* prepared, and then handles the primary's PrePrepare followed by a       *)
(* Prepare from each other replica, still holds a log entry for the        *)
(* operation afterwards, with prepared = true and committed_local = true.  *)
(***************************************************************************)
\* All Commits were delivered first, then the PrePrepare, then the Prepares
CommitsThenPrePrepareThenPrepares ==
    /\ pending = {}
    /\ PrePrepareAt = PBFTNodes
    /\ \A i \in 1..(PrePrepareAt - 1) : delivered[i].kind = "Commit"
    /\ \A i \in (PrePrepareAt + 1)..Len(delivered) : delivered[i].kind = "Prepare"

C14_EntryKeptAfterCommit ==
    CommitsThenPrePrepareThenPrepares =>
        /\ PBFTRequest.operation \in DOMAIN replica.log
        /\ replica.log[PBFTRequest.operation].prepared
        /\ replica.log[PBFTRequest.operation].committed_local


(***************************************************************************)
(* The Zyzzyva cluster and its one request.                                *)
(***************************************************************************)
\* The client's timeout for the request has been handled
ClientTimedOut == Sent(CLIENT_ID, ClientTimeout(FIRST_REQUEST_ID)) \in cluster.got

\* The messages of a kind that were sent, and those that were handled
SentKind(kind) == {p \in DOMAIN cluster.sent : p[2].kind = kind}
GotKind(kind) == {p \in cluster.got : p[2].kind = kind}

\* The client's records of a phase
ClientRecords(phase) ==
    {i \in PhaseRecords(cluster.stream, FIRST_REQUEST_ID, phase) :
        cluster.stream[i].node = CLIENT_ID}

(***************************************************************************)
(* C15: in a Zyzzyva run where the SpeculativeResponse of every replica    *)
(* reaches the client before the client's timeout is delivered, all n_rep  *)
(* replicas log "speculative_commit", the client logs "commit_certificate" *)
(* once and "completed" once, and no Commit message is ever sent.          *)
(***************************************************************************)
C15_FastPathCompletes ==
    cluster.before_timeout = ZyzzyvaReplicaIds =>
        /\ ~cluster.panicked
        /\ PhaseNodes(cluster.stream, FIRST_REQUEST_ID, "speculative_commit")
              = ZyzzyvaReplicaIds
        /\ Cardinality(PhaseRecords(cluster.stream, FIRST_REQUEST_ID, "speculative_commit"))
              = Cardinality(ZyzzyvaReplicaIds)
        /\ Cardinality(ClientRecords("commit_certificate")) = 1
        /\ Cardinality(PhaseRecords(cluster.stream, FIRST_REQUEST_ID, "commit_certificate")) = 1
        /\ Cardinality(ClientRecords("completed")) = 1
        /\ Cardinality(PhaseRecords(cluster.stream, FIRST_REQUEST_ID, "completed")) = 1
        /\ SentKind("Commit") = {}

\* Every response came before the timeout, and the timeout has come too
C15_Witness ==
    /\ cluster # <<>>
    /\ cluster.before_timeout = ZyzzyvaReplicaIds
    /\ ClientTimedOut
    /\ cluster.net = {}
    /\ ClientRecords("completed") # {}

(***************************************************************************)
(* C16: in a Zyzzyva run where the client holds at least quorum_size but   *)
(* fewer than n_rep SpeculativeResponses when its timeout is delivered,    *)
(* the client sends a Commit to every replica, every replica that receives *)
(* it answers with one LocalCommit, and the client logs "completed" at the *)
(* delivery that brings local_commits to quorum_size.                      *)
(***************************************************************************)
\* The timeout found a quorum of responses, but not all of them
TimedOutOnQuorum ==
    /\ cluster # <<>>
    /\ ClientTimedOut
    /\ Cardinality(cluster.before_timeout) >= cluster.nodes[CLIENT_ID].quorum_size
    /\ Cardinality(cluster.before_timeout) < Cardinality(ZyzzyvaReplicaIds)

C16_SlowPathCompletes ==
    TimedOutOnQuorum =>
        /\ ~cluster.panicked
        /\ {p[1] : p \in SentKind("Commit")} = ZyzzyvaReplicaIds
        /\ \A p \in SentKind("Commit") :
              cluster.sent[p] = 1 /\ p[2].sender_id = CLIENT_ID
        /\ Cardinality(SentKind("Commit")) = Cardinality(ZyzzyvaReplicaIds)
        /\ {p[2].sender_id : p \in SentKind("LocalCommit")}
              = {p[1] : p \in GotKind("Commit")}
        /\ \A p \in SentKind("LocalCommit") : cluster.sent[p] = 1 /\ p[1] = CLIENT_ID
        /\ Cardinality(SentKind("LocalCommit")) = Cardinality(GotKind("Commit"))
        /\ Cardinality(PhaseRecords(cluster.stream, FIRST_REQUEST_ID, "completed"))
              = Cardinality(ClientRecords("completed"))
        /\ Cardinality(ClientRecords("completed"))
              = IF Cardinality(GotKind("LocalCommit"))
                      >= cluster.nodes[CLIENT_ID].quorum_size
                THEN 1 ELSE 0

\* The client completed on a quorum of LocalCommits while one replica has
\* not received the Commit
C16_Witness ==
    /\ TimedOutOnQuorum
    /\ ClientRecords("completed") # {}
    /\ Cardinality(GotKind("Commit")) < Cardinality(ZyzzyvaReplicaIds)
    /\ Cardinality(GotKind("LocalCommit")) = cluster.nodes[CLIENT_ID].quorum_size

(***************************************************************************)
(* What a PBFT replica does with a request or a PrePrepare that is not for *)
(* it (SpecReplica).                                                       *)
(***************************************************************************)
\* C24: a PBFT backup that receives a ClientRequest returns no output and
\* leaves its state as it was: no log entry is created, no sequence number is
\* consumed, the committed set is untouched, and nothing is logged.
C24_BackupDropsClientRequest ==
    [][\A m \in msg' :
          (/\ node_type = "PBFT"
           /\ m.kind = "ClientRequest"
           /\ replica.role = "Backup")
          => /\ replica' = replica
             /\ output' = <<>>
             /\ results' = <<>>
             /\ ~panicked']_rvars

\* C24 witness: a backup has just been handed the client's request
C24_Witness ==
    /\ node_type = "PBFT"
    /\ replica.role = "Backup"
    /\ ~panicked
    /\ \E m \in msg : m.kind = "ClientRequest"

\* C25: a PBFT replica that receives a PrePrepare whose sender_id is not the
\* current primary (current_view mod n) returns no output and leaves its state
\* as it was: no entry is created or modified and no Prepare is broadcast.
C25_PrePrepareFromNonPrimaryDropped ==
    [][\A m \in msg' :
          (/\ node_type = "PBFT"
           /\ m.kind = "PrePrepare"
           /\ m.sender_id # replica.current_view % replica.num_of_nodes)
          => /\ replica' = replica
             /\ output' = <<>>
             /\ results' = <<>>
             /\ ~panicked']_rvars

\* C25 witness: a replica has just been handed a PrePrepare that a backup sent
C25_Witness ==
    /\ node_type = "PBFT"
    /\ ~panicked
    /\ \E m \in msg :
          /\ m.kind = "PrePrepare"
          /\ m.sender_id # replica.current_view % replica.num_of_nodes

(***************************************************************************)
(* The numbers the PBFT primary gives to requests (SpecPrimary).           *)
(***************************************************************************)
\* The place of the last request for op among the requests handled
LastRequestFor(op) ==
    CHOOSE i \in DOMAIN delivered :
        /\ delivered[i].c_req.operation = op
        /\ \A j \in DOMAIN delivered : delivered[j].c_req.operation = op => j <= i

\* C26: the PBFT primary gives every ClientRequest it handles the next
\* sequence number, 1, 2, 3, ... in handling order, so two distinct operations
\* never hold the same (view, seq) pair, and for each request it emits exactly
\* one PrePrepare, carrying that number, to each of the n-1 other replicas and
\* none to itself.
C26_PrimaryNumbersRequests ==
    /\ replica.next_seq_num = Len(delivered)
    /\ \A op \in DOMAIN replica.log :
          /\ \E i \in DOMAIN delivered : delivered[i].c_req.operation = op
          /\ replica.log[op].seq_number = LastRequestFor(op)
          /\ replica.log[op].view = replica.current_view
    /\ \A op1, op2 \in DOMAIN replica.log :
          op1 # op2 =>
             <<replica.log[op1].view, replica.log[op1].seq_number>>
                # <<replica.log[op2].view, replica.log[op2].seq_number>>
    /\ \A m \in msg :
          m.kind = "ClientRequest" =>
             /\ Len(output) = replica.num_of_nodes - 1
             /\ \A p \in (1..replica.num_of_nodes) \ {replica.id} :
                   Cardinality({i \in DOMAIN output : output[i][1] = p}) = 1
             /\ \A i \in DOMAIN output :
                   /\ output[i][1] # replica.id
                   /\ output[i][2] = PrePrepareMessage(m.c_req, replica.current_view,
                                                       Len(delivered), replica.id)

\* C26 witness: the primary has numbered requests for two operations and has
\* just sent the PrePrepares for the second number
C26_Witness ==
    /\ ~panicked
    /\ Len(delivered) >= 2
    /\ delivered[1] # delivered[2]
    /\ \E m \in msg : m.kind = "ClientRequest"
    /\ \E i \in DOMAIN output : output[i][2].seq_number = 2

(***************************************************************************)
(* What a PBFT replica has seen when it is prepared (SpecReplica).         *)
(***************************************************************************)
\* The Prepare and the PrePrepare messages a log entry holds
PreparesOf(entry) == {m \in entry.prepare_quorum : m.kind = "Prepare"}
PrePreparesOf(entry) == {m \in entry.prepare_quorum : m.kind = "PrePrepare"}

\* The entries that are prepared: the one the last handler set the flag of,
\* and those the log keeps
PreparedEntries ==
    {e \in last_entry : "prepared" \in Phases}
        \cup {replica.log[op] : op \in {o \in DOMAIN replica.log : replica.log[o].prepared}}

SendersAgreeing(quorum, v, n) ==
    {m.sender_id : m \in {x \in quorum : x.view = v /\ x.seq_number = n}}

\* A quorum set holds messages of at least size distinct senders that agree
\* on view and sequence number
HasAgreeingSenders(quorum, size) ==
    \E m \in quorum : Cardinality(SendersAgreeing(quorum, m.view, m.seq_number)) >= size

\* C29 (as claimed): whenever prepared or committed_local flips to true, the
\* prepare set, respectively the commit set, holds messages from at least
\* quorum_size (2f+1) distinct sender ids that agree on view and sequence
\* number.
C29_QuorumOfDistinctSenders ==
    \A e \in last_entry :
        /\ "prepared" \in Phases => HasAgreeingSenders(e.prepare_quorum, replica.quorum_size)
        /\ "committed_local" \in Phases =>
              HasAgreeingSenders(e.commit_quorum, replica.quorum_size)

(***************************************************************************)
(* The Zyzzyva client and its timeout (SpecReplica).                       *)
(***************************************************************************)
\* An Output is one message of the client for each replica, and each is a
\* Commit for req_id that carries the certificate cert in some order
IsCommitToEveryReplica(out, self, req_id, cert) ==
    /\ Len(out) = self.num_of_nodes
    /\ \A p \in (1..(self.num_of_nodes + 1)) \ {CLIENT_ID} :
          Cardinality({i \in DOMAIN out : out[i][1] = p}) = 1
    /\ \A i \in DOMAIN out :
          /\ out[i][2].kind = "Commit"
          /\ out[i][2].req_id = req_id
          /\ out[i][2].sender_id = self.id
          /\ Len(out[i][2].certificate) = Cardinality(cert)
          /\ SetOfVec(out[i][2].certificate) = cert
          /\ out[i][2] = out[1][2]

\* C30: when the Zyzzyva client handles a ClientTimeout for an operation it
\* has an entry for, it sets timed_out and then: if quorum_size <= |cert| <
\* n_rep it sends one Commit carrying a snapshot of the certificate to every
\* replica and logs nothing; if |cert| < quorum_size it logs "timed-out" and
\* sends nothing.  If it has no entry for the operation it does nothing.
C30_ClientTimeoutOutcome ==
    [][\A m \in msg' :
          (node_type = "Zyzzyva" /\ m.kind = "ClientTimeout" /\ replica.role = "Client")
          => IF m.req_id \in DOMAIN replica.log
             THEN LET cert == replica.log[m.req_id].commit_certificate IN
                  /\ ~panicked'
                  /\ replica' = [replica EXCEPT !.log[m.req_id].timed_out = TRUE]
                  /\ (Cardinality(cert) >= replica.quorum_size
                        /\ Cardinality(cert) < replica.num_of_nodes)
                     => /\ IsCommitToEveryReplica(output', replica, m.req_id, cert)
                        /\ results' = <<>>
                  /\ Cardinality(cert) < replica.quorum_size
                     => /\ output' = <<>>
                        /\ results' = <<ResultRecord(0, replica.id, m.req_id, "timed-out")>>
             ELSE /\ ~panicked'
                  /\ replica' = replica
                  /\ output' = <<>>
                  /\ results' = <<>>]_rvars

\* C30 witness: the client's timeout has just found a certificate that is a
\* quorum but not complete, and the client has sent Commits
C30_Witness ==
    /\ node_type = "Zyzzyva"
    /\ replica.role = "Client"
    /\ ~panicked
    /\ \E m \in msg : m.kind = "ClientTimeout"
    /\ \E e \in last_entry :
          /\ e.timed_out
          /\ Cardinality(e.commit_certificate) >= replica.quorum_size
    /\ output # <<>>

\* The client's timeout has just found less than a quorum
C30_TimedOutLogged ==
    /\ node_type = "Zyzzyva"
    /\ replica.role = "Client"
    /\ \E m \in msg : m.kind = "ClientTimeout"
    /\ "timed-out" \in Phases

\* The client's timeout has just found no entry
C30_NoEntry ==
    /\ node_type = "Zyzzyva"
    /\ replica.role = "Client"
    /\ ~panicked
    /\ \E m \in msg : m.kind = "ClientTimeout" /\ m.req_id \notin DOMAIN replica.log

(***************************************************************************)
(* The Commit a PBFT replica sends in a run of the simulator (SpecRun).    *)
(***************************************************************************)
\* The Broadcast events in the queue that carry node's Commit for op to peer
CommitBroadcasts(sim, node, op, peer) ==
    {i \in DOMAIN sim.event_queue :
        /\ sim.event_queue[i].kind = "Broadcast"
        /\ sim.event_queue[i].id_from = node
        /\ sim.event_queue[i].id_to = peer
        /\ sim.event_queue[i].message.kind = "Commit"
        /\ sim.event_queue[i].message.c_req.operation = op}

\* The "prepared" records node wrote for op
PreparedBy(sim, node, op) ==
    {i \in PhaseRecords(sim.stream, op, "prepared") : sim.stream[i].node = node}

\* node's log entry for op is prepared and holds node's own Commit, or the
\* operation is committed and the entry gone
HoldsOwnCommit(state, op) ==
    IF op \in DOMAIN state.log
    THEN /\ state.log[op].prepared
         /\ \E m \in state.log[op].commit_quorum : m.sender_id = state.id
    ELSE op \in state.cl_reqs

\* C27: in a PBFT run of the simulator each replica sends its Commit for an
\* operation at most once: the Commit is broadcast to all peers exactly in the
\* step where prepared flips to true, together with the insertion of the
\* replica's own Commit into its commit set, and never again.
C27_CommitSentOnce ==
    /\ [](\A node \in DOMAIN sims[1].node_map : \A op \in RunOps :
             Cardinality(PreparedBy(sims[1], node, op)) <= 1)
    /\ [][\A node \in DOMAIN sims[1].node_map : \A op \in RunOps :
             LET flipped == Cardinality(PreparedBy(sims'[1], node, op))
                               > Cardinality(PreparedBy(sims[1], node, op))
                 sent(peer) == Cardinality(CommitBroadcasts(sims'[1], node, op, peer))
                                  - Cardinality(CommitBroadcasts(sims[1], node, op, peer))
             IN IF flipped
                THEN /\ op \in DOMAIN sims[1].node_map[node].log
                           => ~sims[1].node_map[node].log[op].prepared
                     /\ HoldsOwnCommit(sims'[1].node_map[node], op)
                     /\ \A peer \in DOMAIN sims[1].node_map :
                           sent(peer) = IF peer = node THEN 0 ELSE 1
                ELSE \A peer \in DOMAIN sims[1].node_map : sent(peer) <= 0]_vars

\* C27 witness: a replica has written "prepared" for the request and its
\* Commit is on its way to each of its peers
C27_Witness ==
    \E node \in DOMAIN sims[1].node_map : \E op \in RunOps :
        /\ Cardinality(PreparedBy(sims[1], node, op)) = 1
        /\ \A peer \in DOMAIN sims[1].node_map \ {node} :
              Cardinality(CommitBroadcasts(sims[1], node, op, peer)) = 1

(***************************************************************************)
(* The end of a run (SpecStoppedRun).                                      *)
(***************************************************************************)
\* The event the main loop popped last is Admin(Stop)
PoppedStop(sim) ==
    /\ sim.popped # <<>>
    /\ sim.popped[Len(sim.popped)] = Event_new_admin_stop

\* The events in the queue that are not Admin events
PendingWork(sim) ==
    {i \in DOMAIN sim.event_queue : sim.event_queue[i].kind # "Admin"}

\* C22: when the main loop pops Admin(Stop) it exits at once: it writes
\* "Simulation finished" and the run is over; afterwards no event still in the
\* queue is processed, no node state changes, and "Simulation finished" stays
\* the last record of the run.
C22_StopEndsRun ==
    /\ [](PoppedStop(sims[1]) =>
             (sims[1].status = "finished" /\ EndsFinished(sims[1])))
    /\ [][sims[1].status = "finished" =>
             /\ sims'[1].status = "finished"
             /\ sims'[1].node_map = sims[1].node_map
             /\ sims'[1].stream = sims[1].stream
             /\ sims'[1].time = sims[1].time
             /\ sims'[1].popped = sims[1].popped
             /\ Len(sims'[1].event_queue) >= Len(sims[1].event_queue)
             /\ PendingWork(sims'[1]) = PendingWork(sims[1])]_vars

\* C22 witness: the run is over on a Stop sent from outside while events that
\* nodes and network still had to handle are in the queue
C22_Witness ==
    /\ sims[1].status = "finished"
    /\ PoppedStop(sims[1])
    /\ sims[1].stop_sent
    /\ PendingWork(sims[1]) # {}
    /\ \E op \in RunOps : PhaseRecords(sims[1].stream, op, "request") # {}

(***************************************************************************)
(* The time of the events a run pops (SpecFedRun).                         *)
(***************************************************************************)
\* The step is a turn of the main loop that pops an event: it changes the
\* queue and leaves the channel alone
PopsEvent == sims'[1].event_queue # sims[1].event_queue /\ sims'[1].channel = sims[1].channel

NoHardAssert(nodes, p) ==
    LET node == nodes[p[1]]
        m == p[2]
    IN /\ m.kind = "ClientRequest" => node.role # "Backup"
       /\ m.kind = "Commit" =>
             /\ node.role # "Client"
             /\ m.req_id \in DOMAIN node.log \/ Len(m.certificate) > 0
       /\ m.kind = "ClientTimeout" => node.role = "Client"
       /\ m.kind = "SpeculativeResponse" =>
             /\ node.role = "Client"
             /\ m.c_req.operation \in DOMAIN node.log \cup node.cl_reqs
       /\ m.kind = "LocalCommit" =>
             /\ node.role = "Client"
             /\ m.c_req.operation \in DOMAIN node.log \cup node.cl_reqs
       /\ m.kind = "OrderRequest" =>
             /\ node.role = "Backup"
             /\ m.c_req.operation \in DOMAIN node.log => m.c_req.operation \in node.cl_reqs

\* C21: in a Zyzzyva run driven by the batch generator, whatever is omitted or
\* delayed, no hard assert of the protocol is reached: no Backup handles a
\* ClientRequest, the Client no Commit, only the Client a ClientTimeout or a
\* SpeculativeResponse, no Backup an OrderRequest for an operation it has an
\* entry for, and the Client no SpeculativeResponse or LocalCommit for an
\* operation it has no entry for.
C21_NoHardAssertReached ==
    /\ ~cluster.panicked
    /\ \A p \in cluster.net : NoHardAssert(cluster.nodes, p)

\* C21 witness: the client has completed the request on a quorum of
\* LocalCommits and dropped its entry, and a further LocalCommit is on its way
C21_Witness ==
    /\ ~cluster.panicked
    /\ ClientRecords("completed") # {}
    /\ \E p \in cluster.net :
          /\ p[2].kind = "LocalCommit"
          /\ p[2].c_req.operation \notin DOMAIN cluster.nodes[p[1]].log

\* A backup has handled the client's Commit before the primary's OrderRequest
\* for the operation, which is still on its way
C21_CommitBeforeOrderRequest ==
    \E p \in cluster.net :
        /\ p[2].kind = "OrderRequest"
        /\ p[2].c_req.operation \in cluster.nodes[p[1]].cl_reqs

(***************************************************************************)
(* The client of the Zyzzyva cluster after its timeout (SpecCluster).      *)
(***************************************************************************)
\* The client's log, and the operations whose entry is timed_out
ClientLog(c) == c.nodes[CLIENT_ID].log
TimedOutOps(c) == {op \in DOMAIN ClientLog(c) : ClientLog(c)[op].timed_out}

\* The message handled by a step, and the records the step appended
HandledNow == cluster'.got \ cluster.got
RecordsNow == SubSeq(cluster'.stream, Len(cluster.stream) + 1, Len(cluster'.stream))
PhasesNow(op) ==
    {RecordsNow[i].phase : i \in {i \in DOMAIN RecordsNow :
                                     RecordsNow[i].op = op /\ RecordsNow[i].node = CLIENT_ID}}

\* C31: timed_out is set only by the client's timeout handler, and once an
\* operation is timed_out at the Zyzzyva client every later
\* SpeculativeResponse for it is dropped: the commit certificate never grows
\* again, and neither "commit_certificate" nor a fast-path "completed" record
\* is emitted for it.
C31_TimedOutDropsResponses ==
    [][/\ \A op \in TimedOutOps(cluster') \ TimedOutOps(cluster) :
             HandledNow = {Sent(CLIENT_ID, ClientTimeout(op))}
       /\ \A op \in TimedOutOps(cluster) :
             /\ op \in DOMAIN ClientLog(cluster')
                   => /\ ClientLog(cluster')[op].timed_out
                      /\ ClientLog(cluster')[op].commit_certificate
                            = ClientLog(cluster)[op].commit_certificate
             /\ op \notin DOMAIN ClientLog(cluster')
                   => op \in cluster'.nodes[CLIENT_ID].cl_reqs
             /\ "commit_certificate" \notin PhasesNow(op)
             /\ "completed" \in PhasesNow(op)
                   => \E p \in HandledNow : p[2].kind = "LocalCommit"
             /\ \A p \in HandledNow :
                   (p[2].kind = "SpeculativeResponse" /\ p[2].c_req.operation = op)
                   => /\ cluster'.nodes = cluster.nodes
                      /\ cluster'.stream = cluster.stream
                      /\ cluster'.net = cluster.net \ {p}
                      /\ ~cluster'.panicked]_vars

\* A response that came after the timeout, while the entry is still there
C31_Witness ==
    /\ cluster # <<>>
    /\ FIRST_REQUEST_ID \in TimedOutOps(cluster)
    /\ ClientLog(cluster)[FIRST_REQUEST_ID].commit_certificate # {}
    /\ \E p \in GotKind("SpeculativeResponse") :
          /\ p[2].sender_id \notin cluster.before_timeout
          /\ p[2] \notin ClientLog(cluster)[FIRST_REQUEST_ID].commit_certificate

(***************************************************************************)
(* What a Zyzzyva replica does with a Commit (SpecReplica).                *)
(***************************************************************************)
\* C32: every Commit handled by a Zyzzyva replica (Primary or Backup),
\* whether or not it holds a log entry for the operation, yields exactly one
\* LocalCommit addressed to the client and leaves the operation in the
\* committed requests (cl_reqs) and absent from the log; a "committed_local"
\* record is logged when the entry had to be reconstructed from the
\* certificate.
C32_CommitYieldsLocalCommit ==
    [][\A m \in msg' :
          (/\ node_type = "Zyzzyva"
           /\ m.kind = "Commit"
           /\ replica.role \in {"Primary", "Backup"})
          => /\ ~panicked'
             /\ Len(output') = 1
             /\ output'[1][1] = CLIENT_ID
             /\ output'[1][2].kind = "LocalCommit"
             /\ output'[1][2].sender_id = replica.id
             /\ output'[1][2].c_req.operation = m.req_id
             /\ m.req_id \in replica'.cl_reqs
             /\ m.req_id \notin DOMAIN replica'.log
             /\ results' = IF m.req_id \in DOMAIN replica.log
                           THEN <<>>
                           ELSE <<ResultRecord(0, replica.id, m.req_id, "committed_local")>>
             /\ replica' = gc_entry(replica, m.req_id)]_rvars

\* A backup has answered a Commit for an operation it held no entry for
C32_Witness ==
    /\ node_type = "Zyzzyva"
    /\ ~panicked
    /\ replica.role = "Backup"
    /\ \E m \in msg : m.kind = "Commit" /\ m.req_id \in replica.cl_reqs
    /\ Len(output) = 1
    /\ Len(results) = 1

\* A primary has answered a Commit for an operation it held an entry for
C32_WithEntry ==
    /\ node_type = "Zyzzyva"
    /\ ~panicked
    /\ replica.role = "Primary"
    /\ \E m \in msg : m.kind = "Commit" /\ last_entry # {}
                        /\ \A e \in last_entry : e.speculative_execution
    /\ Len(output) = 1
    /\ results = <<>>

(***************************************************************************)
(* The replicas' logs when a request is over (SpecCluster).                *)
(***************************************************************************)
\* The replicas that hold a log entry for the request
HoldingEntry ==
    {id \in ZyzzyvaReplicaIds : FIRST_REQUEST_ID \in DOMAIN cluster.nodes[id].log}

\* C33: replica logs hold only in-flight requests: in a Zyzzyva run, after
\* the client has logged "completed" for an operation and all events in
\* flight for it have been processed, no replica (Primary or Backup) still
\* holds a log entry for that operation.
C33_CompletedLeavesNoEntry ==
    (/\ ClientRecords("completed") # {}
     /\ cluster.net = {})
    => HoldingEntry = {}

\* The fast path is over, nothing is in flight, and every replica holds the
\* entry
C33_FastPathKeepsEntries ==
    /\ cluster # <<>>
    /\ cluster.before_timeout = ZyzzyvaReplicaIds
    /\ ClientRecords("completed") # {}
    /\ cluster.net = {}
    /\ HoldingEntry = ZyzzyvaReplicaIds

\* After a request completed on the slow path and every message was handled
\* no replica holds an entry
C33_SlowPathCollects ==
    (/\ TimedOutOnQuorum
     /\ ClientRecords("completed") # {}
     /\ cluster.net = {})
    => HoldingEntry = {}

(***************************************************************************)
(* The network called on its own (SpecNetwork).                            *)
(***************************************************************************)
\* C34: for every Broadcast the network model handles it produces at most
\* one Reception; that Reception is addressed to the Broadcast's id_to,
\* carries the same message unchanged, and has time now + d with
\* delay_min <= d < delay_max (d = delay_min when the bounds coincide), hence
\* never earlier than now; the network never duplicates, re-addresses or
\* invents a message.
C34_OneReceptionPerBroadcast ==
    call.fn = "Network::handle_broadcast" =>
        /\ Cardinality(call.result) <= 1
        /\ \A e \in call.result :
              /\ e.kind = "Reception"
              /\ e.id = call.broadcast.id_to
              /\ e.message = call.broadcast.message
              /\ e.time >= call.time
              /\ LET d == e.time - call.time
                 IN IF call.network.delay_min = call.network.delay_max
                    THEN d = call.network.delay_min
                    ELSE call.network.delay_min <= d /\ d < call.network.delay_max

\* A Reception with a delay above delay_min and a receiver that is not the
\* sender
C34_Witness ==
    /\ call.fn = "Network::handle_broadcast"
    /\ call.network.delay_max > call.network.delay_min + 1
    /\ call.time > 0
    /\ call.broadcast.id_to # call.broadcast.id_from
    /\ \E e \in call.result : e.time > call.time + call.network.delay_min

\* The broadcast was omitted
C34_Omitted ==
    /\ call.fn = "Network::handle_broadcast"
    /\ ~call.panic
    /\ call.result = {}

(***************************************************************************)
(* Batches of requests expanded into events (SpecBatches).                 *)
(***************************************************************************)
\* C35: expanding a batch {number, interval} at virtual time now yields
\* exactly `number` Reception events, the i-th (i = 1..number) stamped
\* now + (i-1)*interval and addressed to node 1 (PBFT) or to CLIENT_ID
\* (Zyzzyva); across any sequence of batches in a run the operation ids are
\* pairwise distinct and consecutive starting at 1, and the request counter
\* advances by `number` per batch.
C35_BatchExpansion ==
    call.fn = "create_events" =>
        /\ Len(call.result) = call.config.number
        /\ \A i \in DOMAIN call.result :
              /\ call.result[i].kind = "Reception"
              /\ call.result[i].time = call.time + (i - 1) * call.config.interval
              /\ call.result[i].id = (IF call.type = "PBFT" THEN 1 ELSE CLIENT_ID)
              /\ call.result[i].message.kind = "ClientRequest"
        /\ \A i \in DOMAIN call.events :
              call.events[i].message.c_req.operation = FIRST_REQUEST_ID + i - 1
        /\ \A i, j \in DOMAIN call.events :
              i # j => call.events[i].message.c_req.operation
                          # call.events[j].message.c_req.operation
        /\ call.request_counter = call.before + call.config.number
        /\ call.request_counter = FIRST_REQUEST_ID + Len(call.events)

\* A second batch of several spaced requests, expanded for Zyzzyva after the
\* time has advanced
C35_Witness ==
    /\ call.fn = "create_events"
    /\ call.type = "Zyzzyva"
    /\ call.batches = 2
    /\ call.before > FIRST_REQUEST_ID
    /\ call.time > 0
    /\ call.config.number > 1
    /\ call.config.interval > 0

(***************************************************************************)
(* The lock of the event queue (SpecLock).                                 *)
(***************************************************************************)
\* A thread stands where it holds the guard exactly when the lock is its own
GuardScoped ==
    /\ (threads.lock = "main") <=> MainHolds
    /\ (threads.lock = "listener") <=> (threads.listener \in {"push", "drop"})

\* One pop or one push under each guard: none yet before the operation, one
\* after it
OneOperationPerGuard ==
    /\ threads.held <= 1
    /\ threads.main \in {"pop", "push"} => threads.held = 0
    /\ threads.main \in {"drop", "push_drop"} => threads.held = 1
    /\ threads.listener = "push" => threads.held = 0
    /\ threads.listener = "drop" => threads.held = 1

\* The listener has an event in hand that it has not pushed yet
ListenerWaits == threads.listener = "lock"
ListenerPushed == threads.listener \in {"recv", "done"}

\* C36: the queue lock is held for one pop or one push only: the main loop
\* releases it before it dispatches the popped event, so it never tries to
\* take the lock while holding it, a node handler always runs to completion
\* with the lock free, and under every interleaving of the main loop and the
\* listener thread a pending push by the listener is eventually performed
\* (no deadlock, no lost push).
C36_LockScopedToOneOperation ==
    /\ [](GuardScoped /\ OneOperationPerGuard)
    /\ [](threads.main \in {"match", "lock", "push_lock", "idle", "done"}
             => threads.lock # "main")
    /\ (ListenerWaits ~> ListenerPushed)

\* The listener waits for the lock while the main loop pushes the events of
\* a handler
C36_Witness ==
    /\ threads # <<>>
    /\ threads.listener = "lock"
    /\ threads.lock = "main"
    /\ threads.main = "push"
    /\ Len(threads.events) > 1

\* The listener pushes between two pushes of one handler
C36_ListenerBetweenPushes ==
    /\ threads # <<>>
    /\ threads.listener = "drop"
    /\ threads.main = "push_lock"
    /\ threads.events # <<>>
    /\ \E i \in DOMAIN sims[1].event_queue : sims[1].event_queue[i].kind = "Broadcast"

C37_CommitsBeforePrepared ==
    /\ node_type = "PBFT"
    /\ ~panicked
    /\ \E op \in DOMAIN replica.log :
          /\ ~replica.log[op].prepared
          /\ Cardinality(replica.log[op].commit_quorum) >= replica.quorum_size
          /\ Cardinality(replica.log[op].prepare_quorum) >= replica.quorum_size

(***************************************************************************)
(* The client's terminal records in the Zyzzyva cluster (SpecCluster).     *)
(***************************************************************************)
\* C38: in any Zyzzyva run, for each operation the client emits at most one
\* "completed" record and at most one "timed-out" record, and never both: an
\* operation logged as "timed-out" is never completed later, and a completed
\* operation is never reported as timed out.
C38_OneTerminalRecord ==
    /\ Cardinality(ClientRecords("completed")) <= 1
    /\ Cardinality(ClientRecords("timed-out")) <= 1
    /\ ~(ClientRecords("completed") # {} /\ ClientRecords("timed-out") # {})

\* The request timed out below the quorum, and the response of every replica
\* has reached the client since
C38_Witness ==
    /\ cluster # <<>>
    /\ ClientRecords("timed-out") # {}
    /\ {p[2].sender_id : p \in GotKind("SpeculativeResponse")} = ZyzzyvaReplicaIds
    /\ cluster.net = {}

\* The request completed on the slow path and every message has been handled
C38_CompletedAfterTimeout ==
    /\ TimedOutOnQuorum
    /\ ClientRecords("completed") # {}
    /\ cluster.net = {}

(***************************************************************************)
(* The Zyzzyva cluster with a network that omits nothing                   *)
(* (SpecClusterNoOmission).                                                *)
(***************************************************************************)
\* The client has written a terminal record for the request
TerminalRecord ==
    ClientRecords("completed") # {} \/ ClientRecords("timed-out") # {}

\* C39: in a Zyzzyva run with omission probability 0 (any delays and any
\* client timeout value, Stop not injected before the queue drains), every
\* injected request eventually reaches a terminal record at the client:
\* either "completed" or "timed-out".
C39_RequestReachesTerminalRecord ==
    (ClusterRequest \in cluster.net) ~> TerminalRecord

\* Every message has been handled, the LocalCommit of every replica among
\* them, and the client has its terminal record
C39_Witness ==
    /\ cluster # <<>>
    /\ cluster.net = {}
    /\ ClientTimedOut
    /\ Cardinality(GotKind("LocalCommit")) = Cardinality(ZyzzyvaReplicaIds)
    /\ TerminalRecord

\* Nothing is on its way and the client has no terminal record
C39_DrainedWithoutRecord ==
    /\ cluster # <<>>
    /\ cluster.net = {}
    /\ ~TerminalRecord

====
